---- MODULE Spec2Model ----
(***************************************************************************)
(* Stream-resolution pipeline of AnimeParser: the player-catalog client    *)
(* (Player / AsyncPlayer), the embed resolver (MpdController /             *)
(* AsyncMpdController) and the alternate playlist resolver (CVH).          *)
(*                                                                         *)
(* A resolution call is a record in calls[c]; every stage of the code is   *)
(* one action.  The upstream site is the environment: it answers each      *)
(* request that is in flight with one response drawn from a bounded set.   *)
(***************************************************************************)
EXTENDS Integers, Sequences, FiniteSets, TLC

VARIABLES calls, obj

vars == <<calls, obj>>

\* Number of call slots (calls that may be in progress at the same time).
NumCalls == 2

Calls == 1..NumCalls

Modes == {"sync", "async"}

(***************************************************************************)
(* Python values.  Every value is a record with a type tag t.              *)
(***************************************************************************)
None == [t |-> "NoneType"]

Str(s) == [t |-> "str", s |-> s]

IntVal(n) == [t |-> "int", n |-> n]

\* A list with its items; n is len(list).
List(items) == [t |-> "list", n |-> Len(items), items |-> items]

EmptyList == List(<<>>)

\* bool(v) of Python: None, "", 0 and [] are falsy.
Truthy(v) ==
    CASE v.t = "NoneType" -> FALSE
      [] v.t = "str"      -> v.s # <<>>
      [] v.t = "int"      -> v.n # 0
      [] v.t = "list"     -> v.n # 0
      [] OTHER            -> TRUE

\* A dict is [t |-> "dict", m |-> function from its keys to values].
Dict(m) == [t |-> "dict", m |-> m]

HasKey(d, k) == k \in DOMAIN d.m

\* dict.get(k): the value, or None when the key is absent.
Get(d, k) == IF HasKey(d, k) THEN d.m[k] ELSE None

(***************************************************************************)
(* Results of a call.                                                      *)
(***************************************************************************)
NoResult == [kind |-> "none", msg |-> "", value |-> None]

Ok(v) == [kind |-> "ok", msg |-> "", value |-> v]

Raise(kind, msg) == [kind |-> kind, msg |-> msg, value |-> None]

\* exceptions.utils.not_find(query) builds a NotFindError naming the query.
not_find(query) == Raise("NotFindError", query)

IsError(r) == r.kind \notin {"none", "ok"}

(***************************************************************************)
(* URLs are sequences of tokens: a scheme ("https:"), "//", a host, paths. *)
(***************************************************************************)
Schemes == {"https:", "http:"}

DefaultDomain == <<"https:", "//", "animego.me">>

OtherDomain == <<"https:", "//", "animego.org">>

Domains == {DefaultDomain, OtherDomain}

UserAgent == "Mozilla/5.0 (Windows NT 10.0; Win64; x64) AppleWebKit/537.36"

\* BasePlayer.__init__: the two fixed headers of the catalog request.
BasePlayerInit(domen) ==
    [domen        |-> domen,
     engine       |-> "html.parser",
     base_headers |-> [referer |-> domen, x_requested_with |-> "XMLHttpRequest"]]

\* BaseMpd.__init__
BaseMpdInit(domain) ==
    [domain   |-> domain,
     engine   |-> "html.parser",
     _headers |-> [Referer |-> domain, User_Agent |-> UserAgent]]

(***************************************************************************)
(* Upstream responses.                                                     *)
(***************************************************************************)
NoBody == [k |-> "none"]

\* transport: "ok" (2xx), "status" (non-2xx), "conn" (connection failure).
Response(transport, body) == [transport |-> transport, body |-> body]

FailResponses == {Response("status", NoBody), Response("conn", NoBody)}

IdleCall ==
    [pc     |-> "idle",
     comp   |-> "none",
     mode   |-> "sync",
     arg    |-> None,
     url    |-> <<>>,
     data   |-> None,
     reqs   |-> <<>>,
     ups    |-> <<>>,
     trace  |-> <<>>,
     reads  |-> {},
     clients |-> <<>>,
     cancelled |-> FALSE,
     result |-> NoResult]

\* The HTTP client a request goes through.  A blocking fetch opens one of
\* its own (with httpx.Client(...) in BaseMpd._fetch, httpx.request in
\* Player.fetch); a non-blocking fetch uses the AsyncClient handed to the
\* resolver's constructor, which is open before the call and after it.
OpenClient(mode, clients) == Append(clients, [own |-> mode = "sync", open |-> TRUE])

\* A client that is closed only when the response was a good one.
CloseClient_on_success(mode, r, clients) ==
    IF mode = "sync" /\ r.transport = "ok"
    THEN [clients EXCEPT ![Len(clients)].open = FALSE]
    ELSE clients

\* The end of the with block: the blocking fetch closes its client whatever
\* the request ended in; the non-blocking fetch leaves the shared one open.
CloseClient(mode, r, clients) ==
    IF mode = "sync" THEN [clients EXCEPT ![Len(clients)].open = FALSE] ELSE clients

\* A call that takes the response although it was cancelled.
Awaited_ignoring_cancel(call) == TRUE

\* `await client.request(...)`: a response resumes the call only while the
\* call still awaits it; cancelling the call cancels the awaited request.
Awaited(call) == ~call.cancelled

Init ==
    /\ calls = [c \in Calls |-> IdleCall]
    /\ \E d \in Domains :
            obj = [player     |-> BasePlayerInit(d),
                   mpd        |-> BaseMpdInit(d),
                   pagination |-> [state |-> "none"]]

\* A call that has finished: its result is set and nothing of it runs any more.
Finish(call, stage, result) ==
    [call EXCEPT !.pc = "done", !.trace = Append(@, stage), !.result = result]

\* A call that moves on to the next stage.
Advance(call, stage, next) ==
    [call EXCEPT !.pc = next, !.trace = Append(@, stage)]

Free(c) == calls[c].pc = "idle"

\* The caller takes the result (a value or an exception) of a finished call.
Return(c) ==
    /\ calls[c].pc = "done"
    /\ calls' = [calls EXCEPT ![c] = IdleCall]
    /\ UNCHANGED obj

(***************************************************************************)
(* PlayerCatalogClient: Player.get_info / AsyncPlayer.get_info.            *)
(***************************************************************************)
\* Ids of media, as the callers pass them: a string or an integer.
MediaIds == {Str(<<"2868">>), IntVal(11)}

\* f"{id}": a string is used as it is, an integer in decimal digits.
FormatId(id) == IF id.t = "int" THEN <<ToString(id.n)>> ELSE id.s

\* urljoin(self.domen, f"anime/{id}/player")
CatalogUrl(domen, id) == domen \o <<"/anime/">> \o FormatId(id) \o <<"/player">>

Request(method, url, headers, params) ==
    [method |-> method, url |-> url, headers |-> headers, params |-> params]

\* A parsed document is the sequence of its tags; a tag has a name (with
\* the id or marker attribute find looks for), its stripped text, its
\* attributes and its child tags.
Tag(name, text, attrs, children) ==
    [name |-> name, text |-> text, attrs |-> attrs, children |-> children]

TitleMarker == "span[data-episode-replace-title]"

DubbingBox == "div#video-dubbing"

PlayersBox == "div#video-players"

Holds(html, name) == \E i \in 1..Len(html) : html[i].name = name

\* soup.find(...): the first tag of that name.
Find(html, name) ==
    html[CHOOSE i \in 1..Len(html) :
            html[i].name = name /\ \A j \in 1..(i - 1) : html[j].name # name]

\* tag.get(a): the attribute's value, None when the tag has no such attribute.
TagGet(tag, a) == IF a \in DOMAIN tag.attrs THEN tag.attrs[a] ELSE None

\* The longest list of children of div#video-dubbing.
MaxDubs == 2

\* The longest list of children of div#video-players.
MaxPlayers == 2

EmbedRef == Str(<<"//", "aniboom.one", "/embed/x">>)

\* The children of div#video-dubbing: data-dubbing 12 (Sub), 46, 012 and x
\* (Dub), one with no text, one without the attribute.
DubTag(id, text) == Tag("span", text, [a \in {"data-dubbing"} |-> id], <<>>)

DubTags ==
    {DubTag(Str(<<"12">>), Str(<<"Sub">>)), DubTag(Str(<<"46">>), Str(<<"Dub">>)),
     DubTag(Str(<<"012">>), Str(<<"Dub">>)), DubTag(Str(<<"x">>), Str(<<"Dub">>)),
     DubTag(Str(<<"46">>), Str(<<>>)),
     Tag("span", Str(<<"Sub">>), <<>>, <<>>)}

OtherRef == Str(<<"//", "aniboom.one", "/embed/y">>)

\* The children of div#video-players: the service name is the text.
PlayerTag(name, dub) ==
    Tag("span", name,
        [a \in {"data-provide-dubbing", "data-player"} |->
            IF a = "data-player" THEN EmbedRef ELSE dub], <<>>)

\* An entry of Kodik for dubbing 12 with another stream reference.
RepeatedTag ==
    Tag("span", Str(<<"Kodik">>),
        [a \in {"data-provide-dubbing", "data-player"} |->
            IF a = "data-player" THEN OtherRef ELSE Str(<<"12">>)], <<>>)

PlayerTags ==
    {PlayerTag(Str(<<n>>), Str(<<d>>)) : n \in {"Kodik", "AniBoom"}, d \in {"12", "46"}}
    \cup {PlayerTag(Str(<<"Kodik">>), Str(<<"x">>)),
          PlayerTag(Str(<<>>), Str(<<"12">>)),
          RepeatedTag,
          Tag("span", Str(<<"Kodik">>), [a \in {"data-player"} |-> EmbedRef], <<>>)}

TitleTag == Tag(TitleMarker, Str(<<"Episode 1">>), <<>>, <<>>)

\* The scenario document: Kodik with the dubbings 12 (Sub) and 46 (Dub).
KodikDubbing ==
    Tag(DubbingBox, Str(<<"Sub", "Dub">>), <<>>,
        <<DubTag(Str(<<"12">>), Str(<<"Sub">>)), DubTag(Str(<<"46">>), Str(<<"Dub">>))>>)

KodikPlayers ==
    Tag(PlayersBox, Str(<<"Kodik", "Kodik">>), <<>>,
        <<PlayerTag(Str(<<"Kodik">>), Str(<<"12">>)),
          PlayerTag(Str(<<"Kodik">>), Str(<<"46">>))>>)

FullCatalogHtml == <<TitleTag, KodikDubbing, KodikPlayers>>

OtherHtml == <<Tag("p", Str(<<"text">>), <<>>, <<>>)>>

\* The documents the catalog endpoint serves.
CatalogHtmls ==
    {FullCatalogHtml,
     <<KodikDubbing, KodikPlayers>>,
     <<TitleTag, KodikPlayers>>,
     <<TitleTag, KodikDubbing>>,
     OtherHtml}

\* The documents handed to the parser: with or without each of the three
\* regions, the two blocks with any children up to the bounds.
ChildLists(tags, n) == UNION {[1..m -> tags] : m \in 0..n}

ParserHtmls ==
    {t \o d \o p :
        t \in {<<>>, <<TitleTag>>},
        d \in {<<>>} \cup {<<Tag(DubbingBox, Str(<<"dubs">>), <<>>, l)>> :
                                l \in ChildLists(DubTags, MaxDubs)},
        p \in {<<>>} \cup {<<Tag(PlayersBox, Str(<<"players">>), <<>>, l)>> :
                                l \in ChildLists(PlayerTags, MaxPlayers)}}

\* The values the envelope's status key takes; a missing key is no member.
StatusValues == {Str(<<"success">>), Str(<<"error">>), Str(<<"Success">>), None}

\* The values the envelope's content key takes.
ContentValues == {Str(h) : h \in CatalogHtmls} \cup {Str(<<>>), None, EmptyList}

Envelopes ==
    {Dict([k \in {"status", "content"} |-> IF k = "status" THEN s ELSE v]) :
        s \in StatusValues, v \in ContentValues}
    \cup {Dict([k \in {"status"} |-> s]) : s \in StatusValues}
    \cup {Dict([k \in {"content"} |-> v]) : v \in ContentValues}
    \cup {Dict(<<>>)}

\* Bodies of the catalog endpoint: JSON (an envelope or a list) or no JSON.
CatalogBodies ==
    {[k |-> "json", v |-> e] : e \in Envelopes}
    \cup {[k |-> "json", v |-> EmptyList], [k |-> "text", v |-> None]}

CatalogResponses == FailResponses \cup {Response("ok", b) : b \in CatalogBodies}

\* Player.get_info / AsyncPlayer.get_info: the call starts by building the URL.
CatalogCall(mode, id) ==
    [IdleCall EXCEPT !.pc = "fetch", !.comp = "catalog", !.mode = mode, !.arg = id,
                     !.url = CatalogUrl(obj.player.domen, id)]

StartCatalog(c, mode, id) ==
    /\ Free(c)
    /\ calls' = [calls EXCEPT ![c] = CatalogCall(mode, id)]
    /\ UNCHANGED obj

\* Player.fetch / AsyncPlayer.fetch, first half: the request goes out.
CatalogRequest(c) ==
    /\ calls[c].comp = "catalog"
    /\ calls[c].pc = "fetch"
    /\ calls' = [calls EXCEPT ![c] =
            [Advance(calls[c], "fetch", "await") EXCEPT
                !.clients = OpenClient(calls[c].mode, @),
                !.reqs = Append(@, Request("get", calls[c].url,
                                           obj.player.base_headers, None))]]
    /\ UNCHANGED obj

\* response.raise_for_status() and response.json() of Player.fetch.
PlayerFetchResult(r) ==
    CASE r.transport = "conn"   -> Raise("RequestError", "")
      [] r.transport = "status" -> Raise("HTTPStatusError", "")
      [] r.body.k # "json"      -> Raise("JSONDecodeError", "")
      [] OTHER                  -> Ok(r.body.v)

\* Player.fetch / AsyncPlayer.fetch, second half: the response comes in.
CatalogRespond(c, responses) ==
    /\ calls[c].comp = "catalog"
    /\ calls[c].pc = "await"
    /\ Awaited(calls[c])
    /\ \E r \in responses :
        LET res  == PlayerFetchResult(r)
            call == [calls[c] EXCEPT !.ups = Append(@, r),
                                    !.clients = CloseClient(calls[c].mode, r, @)]
        IN  calls' = [calls EXCEPT ![c] =
                IF IsError(res)
                THEN [call EXCEPT !.pc = "done", !.result = res]
                ELSE [call EXCEPT !.pc = "validate", !.data = res.value]]
    /\ UNCHANGED obj

\* raise_for_data with the two checks in the other order.
raise_for_data_content_first(data) ==
    IF data.t # "dict"
    THEN [result |-> Raise("TypeError", "data"), reads |-> {}]
    ELSE IF ~Truthy(Get(data, "content"))
    THEN [result |-> not_find("content"), reads |-> {"content"}]
    ELSE IF Get(data, "status") # Str(<<"success">>)
    THEN [result |-> Raise("StatusError", "status"), reads |-> {"status", "content"}]
    ELSE [result |-> NoResult, reads |-> {"status", "content"}]

\* raise_for_data that only asks whether the content key is there.
raise_for_data_key_only(data) ==
    IF data.t # "dict"
    THEN [result |-> Raise("TypeError", "data"), reads |-> {}]
    ELSE IF Get(data, "status") # Str(<<"success">>)
    THEN [result |-> Raise("StatusError", "status"), reads |-> {"status"}]
    ELSE IF ~HasKey(data, "content")
    THEN [result |-> not_find("content"), reads |-> {"status", "content"}]
    ELSE [result |-> NoResult, reads |-> {"status", "content"}]

\* BasePlayer.raise_for_data: the error raised (NoResult when the envelope
\* passes) and the keys of the envelope that were read on the way.
raise_for_data(data) ==
    IF data.t # "dict"
    THEN [result |-> Raise("TypeError", "data"), reads |-> {}]
    ELSE IF Get(data, "status") # Str(<<"success">>)
    THEN [result |-> Raise("StatusError", "status"), reads |-> {"status"}]
    ELSE IF ~Truthy(Get(data, "content"))
    THEN [result |-> not_find("content"), reads |-> {"status", "content"}]
    ELSE [result |-> NoResult, reads |-> {"status", "content"}]

\* BasePlayer.parse_data, first statement: self.raise_for_data(data).
CatalogValidate(c) ==
    /\ calls[c].comp = "catalog"
    /\ calls[c].pc = "validate"
    /\ LET v    == raise_for_data(calls[c].data)
           call == [calls[c] EXCEPT !.reads = @ \cup v.reads]
       IN  calls' = [calls EXCEPT ![c] =
               IF IsError(v.result)
               THEN Finish(call, "validate", v.result)
               ELSE Advance(call, "validate", "parse")]
    /\ UNCHANGED obj

\* int(x) of Python on the identifiers the documents use: surrounding
\* zeros are dropped, text that is no number raises ValueError, None raises
\* TypeError.
Decimals ==
    [d \in {"0", "12", "012", "17", "46"} |->
        CASE d = "0" -> 0 [] d = "17" -> 17 [] d = "46" -> 46 [] OTHER -> 12]

int(v) ==
    IF v.t # "str" THEN Raise("TypeError", "int")
    ELSE IF Len(v.s) = 1 /\ v.s[1] \in DOMAIN Decimals
    THEN Ok(IntVal(Decimals[v.s[1]]))
    ELSE Raise("ValueError", "int")

\* A Python dict keeps its keys in the order of their first insertion: a
\* sequence of [key, value] with no key twice.
KeyIndex(pairs, key) ==
    IF \E i \in 1..Len(pairs) : pairs[i].key = key
    THEN CHOOSE i \in 1..Len(pairs) : pairs[i].key = key
    ELSE 0

\* d[key] = value
DictPut(pairs, key, value) ==
    IF KeyIndex(pairs, key) = 0 THEN Append(pairs, [key |-> key, value |-> value])
    ELSE [pairs EXCEPT ![KeyIndex(pairs, key)].value = value]

\* d.get(key)
DictGet(pairs, key) ==
    IF KeyIndex(pairs, key) = 0 THEN None ELSE pairs[KeyIndex(pairs, key)].value

\* The first error of a sequence of results, NoResult when there is none.
FirstError(results) ==
    LET bad == {i \in 1..Len(results) : IsError(results[i])}
    IN  IF bad = {} THEN NoResult
        ELSE results[CHOOSE i \in bad : \A j \in bad : i <= j]

\* PlayerParser._extract_title: the marker's text, "" without the marker.
_extract_title(soup) ==
    IF Holds(soup, TitleMarker) THEN Find(soup, TitleMarker).text ELSE Str(<<>>)

\* The dict comprehension of _parse_dubbing_data over the children that
\* have text.
RECURSIVE DubbingOf(_)
DubbingOf(children) ==
    IF children = <<>> THEN <<>>
    ELSE LET init == DubbingOf(SubSeq(children, 1, Len(children) - 1))
             tag  == children[Len(children)]
         IN  IF ~Truthy(tag.text) THEN init
             ELSE DictPut(init, TagGet(tag, "data-dubbing"), tag.text)

\* _parse_dubbing_data that takes a missing block for an empty one.
_parse_dubbing_data_lenient(soup) ==
    IF ~Holds(soup, DubbingBox) THEN Ok(<<>>)
    ELSE Ok(DubbingOf(Find(soup, DubbingBox).children))

\* PlayerParser._parse_dubbing_data
_parse_dubbing_data(soup) ==
    IF ~Holds(soup, DubbingBox) THEN not_find("dubbing_box")
    ELSE Ok(DubbingOf(Find(soup, DubbingBox).children))

\* The loop of _parse_players_data: players[text].append({dubbing: player}).
RECURSIVE PlayersOf(_)
PlayersOf(children) ==
    IF children = <<>> THEN <<>>
    ELSE LET init  == PlayersOf(SubSeq(children, 1, Len(children) - 1))
             tag   == children[Len(children)]
             entry == [key   |-> TagGet(tag, "data-provide-dubbing"),
                       value |-> TagGet(tag, "data-player")]
             list  == IF KeyIndex(init, tag.text) = 0 THEN <<>>
                      ELSE DictGet(init, tag.text)
         IN  IF ~Truthy(tag.text) THEN init
             ELSE DictPut(init, tag.text, Append(list, entry))

\* PlayerParser._parse_players_data
_parse_players_data(soup) ==
    IF ~Holds(soup, PlayersBox) THEN not_find("players_box")
    ELSE Ok(PlayersOf(Find(soup, PlayersBox).children))

\* models.PlayerPart
NewPlayerPart(title, url, dubbing_id, dubbing_name) ==
    [t |-> "PlayerPart", title |-> title, url |-> url,
     dubbing_id |-> dubbing_id, dubbing_name |-> dubbing_name]

\* PlayerParser._create_single_player: episode_ids takes the identifiers as
\* the document has them, each PlayerPart takes int(episode_id).
_create_single_player(player_name, episodes_list, dubbing_data) ==
    LET ints == [i \in 1..Len(episodes_list) |-> int(episodes_list[i].key)]
    IN  IF IsError(FirstError(ints)) THEN FirstError(ints)
        ELSE Ok([t       |-> "Player",
                 title   |-> player_name,
                 ids     |-> [i \in 1..Len(episodes_list) |-> episodes_list[i].key],
                 players |-> [i \in 1..Len(episodes_list) |->
                                NewPlayerPart(player_name, episodes_list[i].value,
                                              ints[i].value,
                                              DictGet(dubbing_data,
                                                      episodes_list[i].key))]])

\* PlayerParser._create_player_instances: one Player for each key of
\* players_data, in the order of the keys.
_create_player_instances(players_data, dubbing_data) ==
    LET made == [i \in 1..Len(players_data) |->
                    _create_single_player(players_data[i].key, players_data[i].value,
                                          dubbing_data)]
    IN  IF IsError(FirstError(made)) THEN FirstError(made)
        ELSE Ok([i \in 1..Len(made) |-> made[i].value])

\* PlayerParser._build_player_object
_build_player_object(title, players_data, dubbing_data) ==
    LET player_instances == _create_player_instances(players_data, dubbing_data)
        ints == [i \in 1..Len(dubbing_data) |-> int(dubbing_data[i].key)]
    IN  IF IsError(player_instances) THEN player_instances
        ELSE IF IsError(FirstError(ints)) THEN FirstError(ints)
        ELSE Ok([t           |-> "PlayerParseInfo",
                 title       |-> title,
                 all_dubbing |-> [i \in 1..Len(ints) |-> ints[i].value],
                 all_players |-> [i \in 1..Len(dubbing_data) |-> dubbing_data[i].value],
                 info        |-> player_instances.value])

\* PlayerParser.parse_player
parse_player(html_code) ==
    IF html_code.t # "str" THEN Raise("TypeError", "markup")
    ELSE LET soup         == html_code.s
             title        == _extract_title(soup)
             dubbing_data == _parse_dubbing_data(soup)
             players_data == _parse_players_data(soup)
         IN  IF IsError(dubbing_data) THEN dubbing_data
             ELSE IF IsError(players_data) THEN players_data
             ELSE _build_player_object(title, players_data.value, dubbing_data.value)

\* BasePlayer.parse_data, rest: PlayerParser().parse_player(data["content"]).
CatalogParse(c) ==
    /\ calls[c].comp = "catalog"
    /\ calls[c].pc = "parse"
    /\ LET call == [calls[c] EXCEPT !.reads = @ \cup {"content"}]
       IN  calls' = [calls EXCEPT ![c] =
               Finish(call, "parse", parse_player(calls[c].data.m["content"]))]
    /\ UNCHANGED obj

(***************************************************************************)
(* JSON carried in strings.  A string that holds JSON text has a doc       *)
(* field describing the text; any other string is not JSON.                *)
(***************************************************************************)
JsonObject(m) == [t |-> "str", s |-> <<"{", "}">>, doc |-> [form |-> "object", m |-> m]]

JsonArray == [t |-> "str", s |-> <<"[", "]">>, doc |-> [form |-> "array", m |-> <<>>]]

NotJson == Str(<<"<html>">>)

\* json.loads(v): TypeError unless v is a string, JSONDecodeError unless the
\* string holds JSON text, else the decoded value.
json_loads(v) ==
    IF v.t # "str" THEN Raise("TypeError", "json.loads")
    ELSE IF "doc" \notin DOMAIN v THEN Raise("JSONDecodeError", "")
    ELSE IF v.doc.form = "object" THEN Ok(Dict(v.doc.m))
    ELSE Ok(EmptyList)

\* v[k] with a string key: KeyError on a dict without k, TypeError on a
\* list, a string, a number or None.
Subscript(v, k) ==
    IF v.t # "dict" THEN Raise("TypeError", "subscript")
    ELSE IF ~HasKey(v, k) THEN Raise("KeyError", k)
    ELSE Ok(v.m[k])

(***************************************************************************)
(* References handed to the resolvers.                                     *)
(***************************************************************************)
RefStrings ==
    {<<"//", "aniboom.one", "/embed/x">>,
     <<"https:", "//", "aniboom.one", "/embed/x">>,
     <<"http:", "//", "aniboom.one", "/embed/x">>,
     <<"/embed/x">>,
     <<"embed/x">>,
     <<>>}

PlayerPart(url) ==
    NewPlayerPart(Str(<<"AniBoom">>), url, IntVal(12), Str(<<"Sub">>))

Bytes == [t |-> "bytes"]

\* What a caller may pass: a string, a PlayerPart, or something else.
RefArgs ==
    {Str(s) : s \in RefStrings}
    \cup {PlayerPart(Str(s)) : s \in RefStrings}
    \cup {PlayerPart(None), None, IntVal(5), Bytes}

\* A leading "/" on the first path token.
AbsPath(s) ==
    IF s[1] \in {"/embed/x", "embed/x"} THEN <<"/embed/x">> \o Tail(s) ELSE s

\* "https://" + url in place of urljoin.
urljoin_https_concat(url) ==
    IF ~Truthy(url) THEN <<"https:">> ELSE <<"https:", "//">> \o url.s

\* urljoin('https:', url): an empty (or None) url gives the base; a url with
\* a scheme is kept; //host/path gets the base's scheme; a bare path is
\* joined to the base's empty host.
urljoin_https(url) ==
    IF ~Truthy(url) THEN <<"https:">>
    ELSE IF url.s[1] \in Schemes THEN url.s
    ELSE IF url.s[1] = "//" THEN <<"https:">> \o url.s
    ELSE <<"https:", "//">> \o AbsPath(url.s)

\* BaseMpd._normalize_url
_normalize_url(url) ==
    IF url.t = "str" THEN Ok(urljoin_https(url))
    ELSE IF url.t = "PlayerPart" THEN Ok(urljoin_https(url.url))
    ELSE Raise("TypeError", url.t)

(***************************************************************************)
(* EmbedResolver: MpdController / AsyncMpdController.                      *)
(***************************************************************************)
EmbedFields ==
    <<"id", "domain", "duration", "poster", "dash", "hls",
      "quality", "qualityVideo", "rating">>

EmbedKeys == {EmbedFields[i] : i \in 1..Len(EmbedFields)}

ManifestUrls(kind) == {Str(<<kind, "1">>), Str(<<kind, "2">>)}

\* Values of the dash / hls entry: JSON text of {"src": url}, JSON text of
\* an object without src, JSON text of an array, no JSON, and no string.
ManifestValues(kind) ==
    {JsonObject([k \in {"src"} |-> u]) : u \in ManifestUrls(kind)}
    \cup {JsonObject([k \in {"file"} |-> Str(<<kind, "1">>)]),
          JsonArray, NotJson,
          Dict([k \in {"src"} |-> Str(<<kind, "1">>)])}

EmbedValue(k, dash, hls) ==
    CASE k = "dash"         -> dash
      [] k = "hls"          -> hls
      [] k = "duration"     -> IntVal(1440)
      [] k = "qualityVideo" -> IntVal(1080)
      [] k = "quality"      -> [t |-> "bool", b |-> TRUE]
      [] OTHER              -> Str(<<k>>)

\* The objects data-parameters may decode to: all nine keys, or one missing.
EmbedObjects ==
    {[k \in EmbedKeys \ miss |-> EmbedValue(k, d, h)] :
        miss \in {{}} \cup {{k} : k \in EmbedKeys},
        d \in ManifestValues("mpd"), h \in ManifestValues("m3u8")}

\* Values of the data-parameters attribute; None when it is absent.
EmbedParameters ==
    {JsonObject(m) : m \in EmbedObjects} \cup {JsonArray, NotJson, Str(<<>>), None}

\* An embed page: is <div id="video"> there, and its data-parameters.
EmbedPages ==
    {[k |-> "html", video |-> TRUE, params |-> p] : p \in EmbedParameters}
    \cup {[k |-> "html", video |-> FALSE, params |-> None]}

EmbedResponses == FailResponses \cup {Response("ok", b) : b \in EmbedPages}

ManifestResponses == FailResponses \cup {Response("ok", [k |-> "xml"])}

\* The keyword parameters httpx.AsyncClient.request accepts.
ClientRequestKeywords ==
    {"content", "data", "files", "json", "params", "headers", "cookies",
     "auth", "follow_redirects", "timeout", "extensions"}

\* get_mpd / get_full_data / get_playlist enter through _normalize_url.
ResolveCall(comp, mode, arg) ==
    [IdleCall EXCEPT !.pc = "normalize", !.comp = comp, !.mode = mode, !.arg = arg]

StartResolve(c, comp, mode, arg) ==
    /\ Free(c)
    /\ calls' = [calls EXCEPT ![c] = ResolveCall(comp, mode, arg)]
    /\ UNCHANGED obj

\* Normalize that goes on to the fetch although _normalize_url raised.
Normalize_continue(c) ==
    /\ calls[c].pc = "normalize"
    /\ LET n == _normalize_url(calls[c].arg)
       IN  calls' = [calls EXCEPT ![c] =
               [Advance(calls[c], "normalize", "fetch") EXCEPT
                    !.url = IF IsError(n) THEN <<>> ELSE n.value, !.result = n]]
    /\ UNCHANGED obj

\* _fetch_embed_data / get_iframe, first statement: self._normalize_url(url).
Normalize(c) ==
    /\ calls[c].pc = "normalize"
    /\ LET n == _normalize_url(calls[c].arg)
       IN  calls' = [calls EXCEPT ![c] =
               IF IsError(n)
               THEN Finish(calls[c], "normalize", n)
               ELSE [Advance(calls[c], "normalize", "fetch") EXCEPT !.url = n.value]]
    /\ UNCHANGED obj

\* The call that sends a request in _fetch.  BaseMpd._fetch passes the
\* merged headers as headers=; AsyncMpdController._fetch unpacks them into
\* keyword arguments (**headers), which the client accepts only when every
\* header name is one of its keyword parameters.
SendRequest(mode, url, headers, params) ==
    IF mode = "async" /\ ~(DOMAIN headers \subseteq ClientRequestKeywords)
    THEN Raise("TypeError", "request")
    ELSE Ok(Request("GET", url, headers, params))

\* The outcome of _fetch for a response: BaseMpd._fetch turns both transport
\* failures into DataIncorrectError, AsyncMpdController._fetch lets them pass.
MpdFetchResult(mode, r) ==
    CASE r.transport = "conn" ->
            IF mode = "sync" THEN Raise("DataIncorrectError", "Request failed")
            ELSE Raise("RequestError", "")
      [] r.transport = "status" ->
            IF mode = "sync" THEN Raise("DataIncorrectError", "HTTP error")
            ELSE Raise("HTTPStatusError", "")
      [] OTHER -> Ok(r.body)

\* _fetch, first half, for the embed page or the iframe.
FetchRequest(c) ==
    /\ calls[c].pc = "fetch"
    /\ calls[c].comp \in {"embed", "mpd", "playlist"}
    /\ LET q == SendRequest(calls[c].mode, calls[c].url, obj.mpd._headers, None)
       IN  calls' = [calls EXCEPT ![c] =
               IF IsError(q)
               THEN Finish(calls[c], "fetch", q)
               ELSE [Advance(calls[c], "fetch", "await") EXCEPT
                        !.clients = OpenClient(calls[c].mode, @),
                        !.reqs = Append(@, q.value)]]
    /\ UNCHANGED obj

\* A URL names a host: scheme, "//", host.
HasHost(url) == Len(url) >= 3 /\ url[2] = "//" /\ url[3] \notin {"/embed/x", "embed/x"}

\* What client.request(method, url) can end in: a URL without a host never
\* leaves the client, which raises a request error itself.
Answers(url, responses) ==
    IF HasHost(url) THEN responses ELSE {Response("conn", NoBody)}

\* _fetch, second half, for the embed page.
EmbedRespond(c, responses) ==
    /\ calls[c].pc = "await"
    /\ Awaited(calls[c])
    /\ calls[c].comp \in {"embed", "mpd"}
    /\ \E r \in Answers(calls[c].url, responses) :
        LET res  == MpdFetchResult(calls[c].mode, r)
            call == [calls[c] EXCEPT !.ups = Append(@, r),
                                    !.clients = CloseClient(calls[c].mode, r, @)]
        IN  calls' = [calls EXCEPT ![c] =
                IF IsError(res)
                THEN [call EXCEPT !.pc = "done", !.result = res]
                ELSE [call EXCEPT !.pc = "parse_html", !.data = res.value]]
    /\ UNCHANGED obj

\* parse_aniboom_html that decodes the attribute without asking for it first.
parse_aniboom_html_unchecked(page) ==
    IF ~page.video THEN not_find("div#video")
    ELSE LET j == json_loads(IF page.params = None THEN Str(<<>>) ELSE page.params)
         IN  IF j.kind = "JSONDecodeError"
             THEN Raise("DataIncorrectError", "data_parameters")
             ELSE j

\* MpdParser.parse_aniboom_html
parse_aniboom_html(page) ==
    IF ~page.video THEN not_find("div#video")
    ELSE IF ~Truthy(page.params) THEN not_find("data_parameters")
    ELSE LET j == json_loads(page.params)
         IN  IF j.kind = "JSONDecodeError"
             THEN Raise("DataIncorrectError", "data_parameters")
             ELSE j

\* _fetch_embed_data, last statement.
EmbedParse(c) ==
    /\ calls[c].pc = "parse_html"
    /\ LET e == parse_aniboom_html(calls[c].data)
       IN  calls' = [calls EXCEPT ![c] =
               IF IsError(e)
               THEN Finish(calls[c], "parse_html", e)
               ELSE [Advance(calls[c], "parse_html", "decode") EXCEPT !.data = e.value]]
    /\ UNCHANGED obj

\* One keyword argument of EmbedData(...) in get_full_data: embed_data[k],
\* and for dash and hls json.loads(embed_data[k])["src"].
EmbedArgument(embed_data, k) ==
    LET a == Subscript(embed_data, k)
    IN  IF k \notin {"dash", "hls"} \/ IsError(a) THEN a
        ELSE LET j == json_loads(a.value)
             IN  IF IsError(j) THEN j ELSE Subscript(j.value, "src")

\* The first argument, in the order they are written, that raises.
FirstFailure(embed_data) ==
    LET bad == {i \in 1..Len(EmbedFields) :
                    IsError(EmbedArgument(embed_data, EmbedFields[i]))}
    IN  IF bad = {} THEN NoResult
        ELSE EmbedArgument(embed_data,
                           EmbedFields[CHOOSE i \in bad : \A j \in bad : i <= j])

\* EmbedData with the two manifest URLs in each other's field.
EmbedData_swapped(embed_data) ==
    [t             |-> "EmbedData",
     id            |-> EmbedArgument(embed_data, "id").value,
     domain        |-> EmbedArgument(embed_data, "domain").value,
     duration      |-> EmbedArgument(embed_data, "duration").value,
     poster        |-> EmbedArgument(embed_data, "poster").value,
     mpd_url       |-> EmbedArgument(embed_data, "hls").value,
     m3u8_url      |-> EmbedArgument(embed_data, "dash").value,
     quality       |-> EmbedArgument(embed_data, "quality").value,
     quality_video |-> EmbedArgument(embed_data, "qualityVideo").value,
     rating        |-> EmbedArgument(embed_data, "rating").value]

\* EmbedData that numbers its records with a counter kept across calls.
EmbedData_counter(embed_data) ==
    [t             |-> "EmbedData",
     id            |-> IntVal(Cardinality({c \in Calls : calls[c].pc = "done"})),
     domain        |-> EmbedArgument(embed_data, "domain").value,
     duration      |-> EmbedArgument(embed_data, "duration").value,
     poster        |-> EmbedArgument(embed_data, "poster").value,
     mpd_url       |-> EmbedArgument(embed_data, "dash").value,
     m3u8_url      |-> EmbedArgument(embed_data, "hls").value,
     quality       |-> EmbedArgument(embed_data, "quality").value,
     quality_video |-> EmbedArgument(embed_data, "qualityVideo").value,
     rating        |-> EmbedArgument(embed_data, "rating").value]

EmbedData(embed_data) ==
    [t             |-> "EmbedData",
     id            |-> EmbedArgument(embed_data, "id").value,
     domain        |-> EmbedArgument(embed_data, "domain").value,
     duration      |-> EmbedArgument(embed_data, "duration").value,
     poster        |-> EmbedArgument(embed_data, "poster").value,
     mpd_url       |-> EmbedArgument(embed_data, "dash").value,
     m3u8_url      |-> EmbedArgument(embed_data, "hls").value,
     quality       |-> EmbedArgument(embed_data, "quality").value,
     quality_video |-> EmbedArgument(embed_data, "qualityVideo").value,
     rating        |-> EmbedArgument(embed_data, "rating").value]

\* The try block of get_full_data: KeyError and JSONDecodeError become
\* DataIncorrectError, any other exception leaves as it is.
get_full_data(embed_data) ==
    LET f == FirstFailure(embed_data)
    IN  IF ~IsError(f) THEN Ok(EmbedData(embed_data))
        ELSE IF f.kind \in {"KeyError", "JSONDecodeError"}
        THEN Raise("DataIncorrectError", "Failed to parse embed data")
        ELSE f

\* get_full_data after _fetch_embed_data; get_mpd goes on to the manifest.
EmbedDecode(c) ==
    /\ calls[c].pc = "decode"
    /\ LET e == get_full_data(calls[c].data)
       IN  calls' = [calls EXCEPT ![c] =
               IF IsError(e) \/ calls[c].comp = "embed"
               THEN Finish(calls[c], "decode", e)
               ELSE [Advance(calls[c], "decode", "fetch_mpd") EXCEPT
                        !.data = e.value, !.url = e.value.mpd_url.s]]
    /\ UNCHANGED obj

\* get_mpd: self._fetch(self.get_mpd_url(url)), first half.
ManifestRequest(c) ==
    /\ calls[c].pc = "fetch_mpd"
    /\ LET q == SendRequest(calls[c].mode, calls[c].url, obj.mpd._headers, None)
       IN  calls' = [calls EXCEPT ![c] =
               IF IsError(q)
               THEN Finish(calls[c], "fetch_mpd", q)
               ELSE [Advance(calls[c], "fetch_mpd", "await_mpd") EXCEPT
                        !.clients = OpenClient(calls[c].mode, @),
                        !.reqs = Append(@, q.value)]]
    /\ UNCHANGED obj

\* get_mpd: the manifest's text is the result.
ManifestRespond(c, responses) ==
    /\ calls[c].pc = "await_mpd"
    /\ Awaited(calls[c])
    /\ \E r \in responses :
        calls' = [calls EXCEPT ![c] =
            [calls[c] EXCEPT !.ups = Append(@, r),
                             !.clients = CloseClient(calls[c].mode, r, @),
                             !.pc = "done",
                             !.result = MpdFetchResult(calls[c].mode, r)]]
    /\ UNCHANGED obj

(***************************************************************************)
(* AlternatePlaylistResolver: CVH.get_playlist and CVH.get_video_data.     *)
(***************************************************************************)
URL_PLAYLIST ==
    <<"https:", "//", "plapi.cdnvideohub.com", "/api/v1/player/sv/playlist">>

URL_VIDEO ==
    <<"https:", "//", "plapi.cdnvideohub.com", "/api/v1/player/sv/video/">>

PlayerAttributes == <<"data-publisher-id", "data-aggregator", "data-title-id">>

PlayerAttributeSet == {PlayerAttributes[i] : i \in 1..Len(PlayerAttributes)}

\* Two <video-player> elements with different attribute values.
AttributeValue(a, n) ==
    CASE a = "data-publisher-id" -> IF n = 1 THEN Str(<<"5">>) ELSE Str(<<"7">>)
      [] a = "data-aggregator"   -> IF n = 1 THEN Str(<<"x">>) ELSE Str(<<"y">>)
      [] OTHER                   -> IF n = 1 THEN Str(<<"99">>) ELSE Str(<<"100">>)

\* Iframe pages: without <video-player>, or with one that has all three
\* attributes or lacks one of them.
IframePages ==
    {[k |-> "html", player |-> TRUE,
      attrs |-> [a \in PlayerAttributeSet \ miss |-> AttributeValue(a, n)]] :
        miss \in {{}} \cup {{a} : a \in PlayerAttributeSet}, n \in {1, 2}}
    \cup {[k |-> "html", player |-> FALSE, attrs |-> <<>>]}

IframeResponses == FailResponses \cup {Response("ok", b) : b \in IframePages}

ItemFields ==
    <<"cvhId", "name", "vkId", "voiceStudio", "voiceType", "season", "episode">>

ItemKeys == {ItemFields[i] : i \in 1..Len(ItemFields)}

\* The longest items array of a playlist.
MaxItems == 2

ItemValue(k) ==
    CASE k = "name"              -> Str(<<>>)
      [] k \in {"season", "episode"} -> IntVal(1)
      [] OTHER                   -> Str(<<k>>)

\* An item with all seven keys, or with one missing.
PlaylistItems ==
    {Dict([k \in ItemKeys \ miss |-> ItemValue(k)]) :
        miss \in {{}} \cup {{k} : k \in ItemKeys}}

ItemLists == UNION {[1..n -> PlaylistItems] : n \in 0..MaxItems}

PlaylistFields == <<"titleName", "isSerial", "items">>

PlaylistKeys == {PlaylistFields[i] : i \in 1..Len(PlaylistFields)}

PlaylistValue(k, items) ==
    CASE k = "titleName" -> Str(<<"title">>)
      [] k = "isSerial"  -> [t |-> "bool", b |-> TRUE]
      [] OTHER           -> items

\* The objects the playlist endpoint answers with.
PlaylistObjects ==
    {[k \in PlaylistKeys \ miss |-> PlaylistValue(k, List(l))] :
        miss \in {{}} \cup {{k} : k \in PlaylistKeys}, l \in ItemLists}
    \cup {[k \in PlaylistKeys |-> PlaylistValue(k, None)]}

PlaylistTexts == {JsonObject(m) : m \in PlaylistObjects} \cup {JsonArray, NotJson}

PlaylistResponses ==
    FailResponses \cup {Response("ok", [k |-> "text", v |-> t]) : t \in PlaylistTexts}

\* get_iframe's _fetch, second half: the iframe document comes in.
IframeRespond(c, responses) ==
    /\ calls[c].pc = "await"
    /\ Awaited(calls[c])
    /\ calls[c].comp = "playlist"
    /\ \E r \in Answers(calls[c].url, responses) :
        LET res  == MpdFetchResult(calls[c].mode, r)
            call == [calls[c] EXCEPT !.ups = Append(@, r),
                                    !.clients = CloseClient(calls[c].mode, r, @)]
        IN  calls' = [calls EXCEPT ![c] =
                IF IsError(res)
                THEN [call EXCEPT !.pc = "done", !.result = res]
                ELSE [call EXCEPT !.pc = "find", !.data = res.value]]
    /\ UNCHANGED obj

\* FindPlayer without the test for None.
FindPlayer_unchecked(c) ==
    /\ calls[c].pc = "find"
    /\ calls' = [calls EXCEPT ![c] = Advance(calls[c], "find", "params")]
    /\ UNCHANGED obj

\* get_playlist: soup.find("video-player")
FindPlayer(c) ==
    /\ calls[c].pc = "find"
    /\ calls' = [calls EXCEPT ![c] =
            IF ~calls[c].data.player
            THEN Finish(calls[c], "find", not_find("video-player"))
            ELSE Advance(calls[c], "find", "params")]
    /\ UNCHANGED obj

\* player[a] of a tag: KeyError when the attribute is absent.
TagItem(page, a) ==
    IF a \in DOMAIN page.attrs THEN Ok(page.attrs[a]) ELSE Raise("KeyError", a)

\* _build_playlist_params with the publisher id and the title id exchanged.
_build_playlist_params_swapped(page) ==
    IF PlayerAttributeSet \subseteq DOMAIN page.attrs
    THEN Ok([pub  |-> page.attrs["data-title-id"],
             aggr |-> page.attrs["data-aggregator"],
             id   |-> page.attrs["data-publisher-id"]])
    ELSE Raise("KeyError", "data-publisher-id")

\* BaseCVH._build_playlist_params: the three attributes, read in order.
_build_playlist_params(page) ==
    LET bad == {i \in 1..Len(PlayerAttributes) :
                    IsError(TagItem(page, PlayerAttributes[i]))}
    IN  IF bad # {}
        THEN TagItem(page, PlayerAttributes[CHOOSE i \in bad : \A j \in bad : i <= j])
        ELSE Ok([pub  |-> page.attrs["data-publisher-id"],
                 aggr |-> page.attrs["data-aggregator"],
                 id   |-> page.attrs["data-title-id"]])

\* get_playlist without its except clauses.
PlaylistError_uncaught(e) == e

\* The except clauses of get_playlist.
PlaylistError(e) ==
    IF e.kind = "KeyError" THEN Raise("DataIncorrectError", e.msg)
    ELSE IF e.kind = "JSONDecodeError" THEN Raise("DataIncorrectError", "json")
    ELSE e

\* get_playlist: the parameters are built, then the playlist is requested.
PlaylistRequest(c) ==
    /\ calls[c].pc = "params"
    /\ LET p == _build_playlist_params(calls[c].data)
           q == SendRequest(calls[c].mode, URL_PLAYLIST, obj.mpd._headers, p.value)
       IN  calls' = [calls EXCEPT ![c] =
               IF IsError(p) THEN Finish(calls[c], "params", PlaylistError(p))
               ELSE IF IsError(q)
               THEN Finish(Advance(calls[c], "params", "fetch_playlist"),
                           "fetch_playlist", PlaylistError(q))
               ELSE [Advance(Advance(calls[c], "params", "fetch_playlist"),
                             "fetch_playlist", "await_playlist") EXCEPT
                        !.url = URL_PLAYLIST,
                        !.clients = OpenClient(calls[c].mode, @),
                        !.reqs = Append(@, q.value)]]
    /\ UNCHANGED obj

\* get_playlist: the playlist's text comes in.
PlaylistRespond(c, responses) ==
    /\ calls[c].pc = "await_playlist"
    /\ Awaited(calls[c])
    /\ \E r \in responses :
        LET res  == MpdFetchResult(calls[c].mode, r)
            call == [calls[c] EXCEPT !.ups = Append(@, r),
                                    !.clients = CloseClient(calls[c].mode, r, @)]
        IN  calls' = [calls EXCEPT ![c] =
                IF IsError(res)
                THEN [call EXCEPT !.pc = "done", !.result = PlaylistError(res)]
                ELSE [call EXCEPT !.pc = "loads", !.data = res.value.v]]
    /\ UNCHANGED obj

\* One CvhItems(...) of _data_correct: the first key, in order, that fails,
\* or the item.
CvhItem(item) ==
    LET bad == {i \in 1..Len(ItemFields) : IsError(Subscript(item, ItemFields[i]))}
    IN  IF bad # {}
        THEN Subscript(item, ItemFields[CHOOSE i \in bad : \A j \in bad : i <= j])
        ELSE Ok([t            |-> "CvhItems",
                 cvh_id       |-> item.m["cvhId"],
                 name         |-> item.m["name"],
                 vk_id        |-> item.m["vkId"],
                 voice_studio |-> item.m["voiceStudio"],
                 voice_type   |-> item.m["voiceType"],
                 season       |-> item.m["season"],
                 episode      |-> item.m["episode"]])

\* _data_correct that leaves out the items that lack a key.
_data_correct_partial(data) ==
    LET title  == Subscript(data, "titleName")
        serial == Subscript(data, "isSerial")
        items  == Subscript(data, "items")
    IN  IF IsError(title) THEN title
        ELSE IF IsError(serial) THEN serial
        ELSE IF IsError(items) THEN items
        ELSE IF items.value.t # "list" THEN Raise("TypeError", "items")
        ELSE LET l == SelectSeq(items.value.items, LAMBDA i : ~IsError(CvhItem(i)))
             IN  Ok([t         |-> "CvhData",
                     title     |-> title.value,
                     is_serial |-> serial.value,
                     items     |-> [i \in 1..Len(l) |-> CvhItem(l[i]).value]])

\* BaseCVH._data_correct: titleName, isSerial, then every item in turn.
_data_correct(data) ==
    LET title  == Subscript(data, "titleName")
        serial == Subscript(data, "isSerial")
        items  == Subscript(data, "items")
    IN  IF IsError(title) THEN title
        ELSE IF IsError(serial) THEN serial
        ELSE IF IsError(items) THEN items
        ELSE IF items.value.t # "list" THEN Raise("TypeError", "items")
        ELSE LET l   == items.value.items
                 bad == {i \in 1..Len(l) : IsError(CvhItem(l[i]))}
             IN  IF bad # {}
                 THEN CvhItem(l[CHOOSE i \in bad : \A j \in bad : i <= j])
                 ELSE Ok([t         |-> "CvhData",
                          title     |-> title.value,
                          is_serial |-> serial.value,
                          items     |-> [i \in 1..Len(l) |-> CvhItem(l[i]).value]])

\* get_playlist: self._data_correct(json.loads(...)) inside the try block.
PlaylistDecode(c) ==
    /\ calls[c].pc = "loads"
    /\ calls[c].comp = "playlist"
    /\ LET j == json_loads(calls[c].data)
       IN  calls' = [calls EXCEPT ![c] =
               IF IsError(j) THEN Finish(calls[c], "loads", PlaylistError(j))
               ELSE Finish(Advance(calls[c], "loads", "map"), "map",
                           PlaylistError(_data_correct(j.value)))]
    /\ UNCHANGED obj

CvhItems(vk_id) ==
    [t |-> "CvhItems", cvh_id |-> Str(<<"cvhId">>), name |-> Str(<<>>),
     vk_id |-> vk_id, voice_studio |-> Str(<<"voiceStudio">>),
     voice_type |-> Str(<<"voiceType">>), season |-> IntVal(1), episode |-> IntVal(1)]

VideoIds == {Str(<<"vk1">>), Str(<<>>), IntVal(7)}

\* What a caller may pass to get_video_data.
VideoArgs == VideoIds \cup {CvhItems(v) : v \in VideoIds} \cup {None, Bytes}

VideoTexts == {JsonObject([k \in {"sources"} |-> Str(<<"v">>)]), JsonArray, NotJson}

VideoResponses ==
    FailResponses \cup {Response("ok", [k |-> "text", v |-> t]) : t \in VideoTexts}

\* The isinstance chain of get_video_data.
VideoId(arg) ==
    IF arg.t \in {"str", "int"} THEN Ok(arg)
    ELSE IF arg.t = "CvhItems" THEN Ok(arg.vk_id)
    ELSE Raise("TypeError", arg.t)

\* urljoin(self.URL_VIDEO, vk_id): str and non-str arguments do not mix.
VideoUrl(vk_id) ==
    IF vk_id.t # "str" THEN Raise("TypeError", "urljoin")
    ELSE Ok(URL_VIDEO \o vk_id.s)

StartVideo(c, arg) ==
    /\ Free(c)
    /\ calls' = [calls EXCEPT ![c] =
            [IdleCall EXCEPT !.pc = "check", !.comp = "video", !.arg = arg]]
    /\ UNCHANGED obj

\* get_video_data and _get_video up to the request.
VideoRequest(c) ==
    /\ calls[c].pc = "check"
    /\ LET v == VideoId(calls[c].arg)
           u == VideoUrl(v.value)
           q == SendRequest(calls[c].mode, u.value, obj.mpd._headers, None)
       IN  calls' = [calls EXCEPT ![c] =
               IF IsError(v) THEN Finish(calls[c], "check", v)
               ELSE IF IsError(u)
               THEN Finish(Advance(calls[c], "check", "fetch"), "fetch", u)
               ELSE [Advance(Advance(calls[c], "check", "fetch"), "fetch", "await_video")
                        EXCEPT !.url = u.value,
                               !.clients = OpenClient(calls[c].mode, @),
                               !.reqs = Append(@, q.value)]]
    /\ UNCHANGED obj

\* _get_video: json.loads of the fetched text; nothing is caught here.
VideoRespond(c, responses) ==
    /\ calls[c].pc = "await_video"
    /\ Awaited(calls[c])
    /\ \E r \in responses :
        LET res  == MpdFetchResult(calls[c].mode, r)
            call == [calls[c] EXCEPT !.ups = Append(@, r),
                                    !.clients = CloseClient(calls[c].mode, r, @)]
        IN  calls' = [calls EXCEPT ![c] =
                IF IsError(res)
                THEN [call EXCEPT !.pc = "done", !.result = res]
                ELSE Finish(call, "loads", json_loads(res.value.v))]
    /\ UNCHANGED obj

(***************************************************************************)
(* Cancellation of a non-blocking call.                                    *)
(***************************************************************************)
PendingPcs == {"await", "await_mpd", "await_playlist", "await_video"}

\* task.cancel() while the call is suspended in `await ...request(...)`.
RequestCancel(c) ==
    /\ calls[c].mode = "async"
    /\ calls[c].pc \in PendingPcs
    /\ ~calls[c].cancelled
    /\ calls' = [calls EXCEPT ![c].cancelled = TRUE]
    /\ UNCHANGED obj

\* The await raises CancelledError; nothing in fetch, get_info or
\* get_full_data catches it, so it is what the call ends in.
DeliverCancel(c) ==
    /\ calls[c].cancelled
    /\ calls[c].pc \in PendingPcs
    /\ calls' = [calls EXCEPT ![c] =
            [calls[c] EXCEPT !.pc = "done", !.result = Raise("CancelledError", "")]]
    /\ UNCHANGED obj

Cancels == \E c \in Calls : RequestCancel(c) \/ DeliverCancel(c)

(***************************************************************************)
(* One caller: calls follow one another in slot 1.                         *)
(***************************************************************************)
CallCatalog == \E mode \in Modes, id \in MediaIds : StartCatalog(1, mode, id)

CallEmbed ==
    \E comp \in {"embed", "mpd"}, mode \in Modes, arg \in RefArgs :
        StartResolve(1, comp, mode, arg)

\* CVH holds a MpdController: the alternate resolver is blocking only.
CallPlaylist == \E arg \in RefArgs : StartResolve(1, "playlist", "sync", arg)

CallVideo == \E arg \in VideoArgs : StartVideo(1, arg)

CatalogSteps ==
    \E c \in Calls :
        \/ CatalogRequest(c)
        \/ CatalogRespond(c, CatalogResponses)
        \/ CatalogValidate(c)
        \/ CatalogParse(c)

EmbedSteps ==
    \E c \in Calls :
        \/ Normalize(c)
        \/ FetchRequest(c)
        \/ EmbedRespond(c, EmbedResponses)
        \/ EmbedParse(c)
        \/ EmbedDecode(c)
        \/ ManifestRequest(c)
        \/ ManifestRespond(c, ManifestResponses)

PlaylistSteps ==
    \E c \in Calls :
        \/ IframeRespond(c, IframeResponses)
        \/ FindPlayer(c)
        \/ PlaylistRequest(c)
        \/ PlaylistRespond(c, PlaylistResponses)
        \/ PlaylistDecode(c)

VideoSteps ==
    \E c \in Calls :
        \/ VideoRequest(c)
        \/ VideoRespond(c, VideoResponses)

Returns == \E c \in Calls : Return(c)

Next ==
    \/ CallCatalog
    \/ CallEmbed
    \/ CallPlaylist
    \/ CallVideo
    \/ CatalogSteps
    \/ EmbedSteps
    \/ PlaylistSteps
    \/ VideoSteps
    \/ Cancels
    \/ Returns

Spec == Init /\ [][Next]_vars

(***************************************************************************)
(* The two modes side by side: slot 1 runs the blocking resolver, slot 2   *)
(* the non-blocking one, on the same input.                                *)
(***************************************************************************)
PairCatalogResponses ==
    FailResponses
    \cup {Response("ok", [k |-> "json", v |-> Dict([k \in {"status", "content"} |->
                IF k = "status" THEN Str(<<"success">>) ELSE v])]) :
            v \in {Str(FullCatalogHtml), Str(OtherHtml), Str(<<>>)}}
    \cup {Response("ok", [k |-> "json", v |-> Dict([k \in {"status"} |-> Str(<<"error">>)])]),
          Response("ok", [k |-> "text", v |-> None])}

FullEmbedObject(d, h) == [k \in EmbedKeys |-> EmbedValue(k, d, h)]

PairEmbedResponses ==
    FailResponses
    \cup {Response("ok", [k |-> "html", video |-> TRUE, params |-> p]) :
            p \in {JsonObject(FullEmbedObject(d, h)) :
                        d \in ManifestValues("mpd"),
                        h \in {JsonObject([k \in {"src"} |-> Str(<<"m3u8", "1">>)])}}
                   \cup {NotJson, None}}
    \cup {Response("ok", [k |-> "html", video |-> FALSE, params |-> None])}

PairCatalog ==
    /\ Free(1) /\ Free(2)
    /\ \E id \in MediaIds :
            calls' = [calls EXCEPT ![1] = CatalogCall("sync", id),
                                   ![2] = CatalogCall("async", id)]
    /\ UNCHANGED obj

PairEmbed ==
    /\ Free(1) /\ Free(2)
    /\ \E comp \in {"embed", "mpd"}, arg \in RefArgs :
            calls' = [calls EXCEPT ![1] = ResolveCall(comp, "sync", arg),
                                   ![2] = ResolveCall(comp, "async", arg)]
    /\ UNCHANGED obj

PairCatalogSteps ==
    \E c \in Calls :
        \/ CatalogRequest(c)
        \/ CatalogRespond(c, PairCatalogResponses)
        \/ CatalogValidate(c)
        \/ CatalogParse(c)

PairEmbedSteps ==
    \E c \in Calls :
        \/ Normalize(c)
        \/ FetchRequest(c)
        \/ EmbedRespond(c, PairEmbedResponses)
        \/ EmbedParse(c)
        \/ EmbedDecode(c)
        \/ ManifestRequest(c)
        \/ ManifestRespond(c, ManifestResponses)

NextPair ==
    \/ PairCatalog
    \/ PairEmbed
    \/ PairCatalogSteps
    \/ PairEmbedSteps
    \/ Returns

SpecPair == Init /\ [][NextPair]_vars

(***************************************************************************)
(* Several callers of get_full_data at once, each in a slot of its own.    *)
(***************************************************************************)
IdemArgs ==
    {Str(<<"//", "aniboom.one", "/embed/x">>),
     PlayerPart(Str(<<"//", "aniboom.one", "/embed/x">>))}

IdemResponses ==
    {Response("status", NoBody),
     Response("ok", [k |-> "html", video |-> FALSE, params |-> None])}
    \cup {Response("ok", [k |-> "html", video |-> TRUE,
                          params |-> JsonObject(FullEmbedObject(
                              JsonObject([k \in {"src"} |-> u]),
                              JsonObject([k \in {"src"} |-> Str(<<"m3u8", "1">>)])))]) :
            u \in ManifestUrls("mpd")}

IdemCall ==
    \E c \in Calls, mode \in Modes, arg \in IdemArgs : StartResolve(c, "embed", mode, arg)

IdemSteps ==
    \E c \in Calls :
        \/ Normalize(c)
        \/ FetchRequest(c)
        \/ EmbedRespond(c, IdemResponses)
        \/ EmbedParse(c)
        \/ EmbedDecode(c)

NextIdem ==
    \/ IdemCall
    \/ IdemSteps
    \/ Returns

SpecIdem == Init /\ [][NextIdem]_vars

(***************************************************************************)
(* The catalog parser on its own: parse_player applied to a document.      *)
(***************************************************************************)
ParseCall ==
    /\ Free(1)
    /\ \E html \in ParserHtmls :
            calls' = [calls EXCEPT ![1] =
                [IdleCall EXCEPT !.pc = "parse", !.comp = "parser", !.arg = Str(html)]]
    /\ UNCHANGED obj

ParseRun(c) ==
    /\ calls[c].comp = "parser"
    /\ calls[c].pc = "parse"
    /\ calls' = [calls EXCEPT ![c] = Finish(calls[c], "parse", parse_player(calls[c].arg))]
    /\ UNCHANGED obj

ParseSteps == \E c \in Calls : ParseRun(c)

NextParse ==
    \/ ParseCall
    \/ ParseSteps
    \/ Returns

SpecParse == Init /\ [][NextParse]_vars

(***************************************************************************)
(* AniBoom.get_info and the parsers of anime pages and of search cards.    *)
(***************************************************************************)
\* str.split(sep): the pieces between the occurrences of sep.  sep is one
\* token of the string.
RECURSIVE str_split(_, _)
str_split(s, sep) ==
    IF \A i \in 1..Len(s) : s[i] # sep THEN <<s>>
    ELSE LET i == CHOOSE j \in 1..Len(s) :
                        s[j] = sep /\ \A l \in 1..(j - 1) : s[l] # sep
         IN  <<SubSeq(s, 1, i - 1)>> \o str_split(SubSeq(s, i + 1, Len(s)), sep)

\* str.split(): the pieces between runs of whitespace, none of them empty.
split_whitespace(s) == SelectSeq(str_split(s, " "), LAMBDA piece : piece # <<>>)

\* BaseMiniAnimeInfo(title, url, poster_url): the dataclass takes its
\* fields in the order of their declaration.
BaseMiniAnimeInfo(title, url, poster_url) ==
    [t |-> "BaseMiniAnimeInfo", title |-> title, url |-> url, poster_url |-> poster_url]

BaseAnimeInfo(title, url, poster_url, description, anime_info) ==
    [t |-> "BaseAnimeInfo", title |-> title, url |-> url, poster_url |-> poster_url,
     description |-> description, anime_info |-> anime_info]

\* AniBoomAnime(**base_info.__dict__, synonyms=...)
AniBoomAnime(base_info, synonyms) ==
    [t |-> "AniBoomAnime", title |-> base_info.title, url |-> base_info.url,
     poster_url |-> base_info.poster_url, description |-> base_info.description,
     anime_info |-> base_info.anime_info, synonyms |-> synonyms]

AnimeRow(name, value, original) ==
    [t |-> "AnimeRow", name |-> name, value |-> value, original |-> original]

\* The identifier taken from the first piece of the url.
ID_first_piece(record) ==
    IF record.url.t # "str" THEN Raise("AttributeError", "split")
    ELSE Ok(Str(str_split(record.url.s, "-")[1]))

\* AniBoomAnime.ID / BaseMiniAnimeInfo.ID: self.url.split("-")[-1]
ID(record) ==
    IF record.url.t # "str" THEN Raise("AttributeError", "split")
    ELSE LET pieces == str_split(record.url.s, "-")
         IN  Ok(Str(pieces[Len(pieces)]))

\* find_all(name): the tags of that name, in document order.
FindAll(html, name) == SelectSeq(html, LAMBDA tag : tag.name = name)

\* get_text(strip=True) of the tags of a list.
Texts(tags) == [i \in 1..Len(tags) |-> tags[i].text]

AnimeTitleBox == "div.anime-title"

AnimePosterBox == "div.anime-poster"

CanonicalLink == "link[rel=canonical]"

DescriptionBox == "div.description"

\* AnimeBoomParser._find_title
AnimeBoomParser_find_title(soup) ==
    IF ~Holds(soup, AnimeTitleBox) THEN not_find("title_box")
    ELSE IF Holds(Find(soup, AnimeTitleBox).children, "h1")
    THEN Ok(Find(Find(soup, AnimeTitleBox).children, "h1").text)
    ELSE not_find("h1")

\* AnimeBoomParser._find_url: the href of the canonical link, None when the
\* link has no href.
AnimeBoomParser_find_url(soup) ==
    IF Holds(soup, CanonicalLink)
    THEN Ok(TagGet(Find(soup, CanonicalLink), "href"))
    ELSE not_find("link")

\* AnimeBoomParser._find_poster: the first piece of the image's srcset.
AnimeBoomParser_find_poster(soup) ==
    IF ~Holds(soup, AnimePosterBox) THEN not_find("poster_box")
    ELSE IF ~Holds(Find(soup, AnimePosterBox).children, "img") THEN not_find("img")
    ELSE LET src == TagGet(Find(Find(soup, AnimePosterBox).children, "img"), "srcset")
         IN  IF ~Truthy(src) THEN not_find("src")
             ELSE IF split_whitespace(src.s) = <<>> THEN Raise("IndexError", "split")
             ELSE Ok(Str(split_whitespace(src.s)[1]))

\* AnimeBoomParser._find_description: ' '.join(description.get_text().split())
AnimeBoomParser_find_description(soup) ==
    IF Holds(soup, DescriptionBox)
    THEN Ok(Find(soup, DescriptionBox).text)
    ELSE Ok(Str(<<>>))

\* AnimeBoomParser._find_info: the dt and dd tags with a text, in pairs.
\* The key joins the children of dt, the value is the list of the children
\* of dd, joined when it has one element.  Every child of the pages below
\* has a text of more than one character.
AnimeBoomParser_find_info(soup) ==
    LET dt == SelectSeq(FindAll(soup, "dt"), LAMBDA tag : Truthy(tag.text))
        dd == SelectSeq(FindAll(soup, "dd"), LAMBDA tag : Truthy(tag.text))
        n  == IF Len(dt) < Len(dd) THEN Len(dt) ELSE Len(dd)
    IN  Ok(List([i \in 1..n |->
            LET key   == dt[i].text
                value == Texts(dd[i].children)
            IN  AnimeRow(key,
                         IF Len(value) = 1 THEN value[1] ELSE List(value),
                         [key |-> key, value |-> List(value)])]))

\* AnimeBoomParser._find_synonyms
AnimeBoomParser_find_synonyms(soup) ==
    IF ~Holds(soup, AnimeTitleBox) THEN not_find("title_box")
    ELSE Ok(List(Texts(FindAll(Find(soup, AnimeTitleBox).children, "li"))))

\* BasicAnimeParser.parse_anime: the five fields in the order the call
\* evaluates them; the first error ends it.
BasicAnimeParser_parse_anime(html_code) ==
    LET soup   == html_code.s
        fields == <<AnimeBoomParser_find_title(soup),
                    AnimeBoomParser_find_url(soup),
                    AnimeBoomParser_find_poster(soup),
                    AnimeBoomParser_find_description(soup),
                    AnimeBoomParser_find_info(soup)>>
    IN  IF \E i \in 1..5 : IsError(fields[i])
        THEN fields[CHOOSE i \in 1..5 :
                        IsError(fields[i]) /\ \A j \in 1..(i - 1) : ~IsError(fields[j])]
        ELSE Ok(BaseAnimeInfo(fields[1].value, fields[2].value, fields[3].value,
                              fields[4].value, fields[5].value))

\* AnimeBoomParser.parse_anime
AnimeBoomParser_parse_anime(html_code) ==
    LET base_info == BasicAnimeParser_parse_anime(html_code)
        synonyms  == AnimeBoomParser_find_synonyms(html_code.s)
    IN  IF IsError(base_info) THEN base_info
        ELSE IF IsError(synonyms) THEN synonyms
        ELSE Ok(AniBoomAnime(base_info.value, synonyms.value))

\* Addresses of anime pages: "-" is a token of its own.
AnimeUrls ==
    {<<"https:", "//", "animego.me", "/anime/vanpanchmen", "-", "s1", "-", "11">>,
     <<"https:", "//", "animego.me", "/anime/chernyy", "-", "klever", "-", "27">>,
     <<"https:", "//", "animego.me", "/anime/naruto">>}

PosterSrc == <<"https://animego.me/media/poster.jpg", " ", "2x">>

\* The parts an anime page may hold; <<>> is a part that is absent.
AnimeTitleParts ==
    {<<>>,
     <<Tag(AnimeTitleBox, Str(<<>>), <<>>, <<Tag("li", Str(<<"One Punch Man">>), <<>>, <<>>)>>)>>,
     <<Tag(AnimeTitleBox, Str(<<>>), <<>>,
           <<Tag("h1", Str(<<"Vanpanchmen">>), <<>>, <<>>),
             Tag("li", Str(<<"One Punch Man">>), <<>>, <<>>)>>)>>}

AnimeLinkParts ==
    {<<>>, <<Tag(CanonicalLink, Str(<<>>), <<>>, <<>>)>>}
        \cup {<<Tag(CanonicalLink, Str(<<>>), [a \in {"href"} |-> Str(u)], <<>>)>> :
                u \in AnimeUrls}

AnimePosterParts ==
    {<<>>,
     <<Tag(AnimePosterBox, Str(<<>>), <<>>, <<>>)>>,
     <<Tag(AnimePosterBox, Str(<<>>), <<>>, <<Tag("img", Str(<<>>), <<>>, <<>>)>>)>>,
     <<Tag(AnimePosterBox, Str(<<>>), <<>>,
           <<Tag("img", Str(<<>>), [a \in {"srcset"} |-> Str(<<" ">>)], <<>>)>>)>>,
     <<Tag(AnimePosterBox, Str(<<>>), <<>>,
           <<Tag("img", Str(<<>>), [a \in {"srcset"} |-> Str(PosterSrc)], <<>>)>>)>>}

AnimeInfoParts ==
    {<<>>,
     <<Tag(DescriptionBox, Str(<<"Saitama">>), <<>>, <<>>),
       Tag("dt", Str(<<"Tip">>), <<>>, <<Tag("span", Str(<<"Tip">>), <<>>, <<>>)>>),
       Tag("dd", Str(<<"TV Serial">>), <<>>, <<Tag("span", Str(<<"TV Serial">>), <<>>, <<>>)>>),
       Tag("dd", Str(<<"12">>), <<>>, <<>>)>>}

AnimePages ==
    {link \o title \o poster \o info :
        link \in AnimeLinkParts, title \in AnimeTitleParts,
        poster \in AnimePosterParts, info \in AnimeInfoParts}

AnimeResponses ==
    FailResponses \cup {Response("ok", [k |-> "html", v |-> Str(page)]) : page \in AnimePages}

\* AniBoom.get_info(url), first half: httpx.get(url, follow_redirects=True).
GetInfoCall ==
    /\ Free(1)
    /\ \E u \in AnimeUrls :
            calls' = [calls EXCEPT ![1] =
                [IdleCall EXCEPT !.pc = "await", !.comp = "get_info", !.arg = Str(u),
                                 !.url = u,
                                 !.reqs = <<Request("GET", u, <<>>, <<>>)>>,
                                 !.clients = OpenClient("sync", <<>>)]]
    /\ UNCHANGED obj

\* AniBoom.get_info, second half: raise_for_status and the parser.
GetInfoRespond(c) ==
    /\ calls[c].comp = "get_info"
    /\ calls[c].pc = "await"
    /\ \E r \in AnimeResponses :
        LET call == [calls[c] EXCEPT !.ups = Append(@, r),
                                    !.clients = CloseClient("sync", r, @)]
        IN  calls' = [calls EXCEPT ![c] =
                CASE r.transport = "conn"   -> Finish(call, "fetch", Raise("RequestError", ""))
                  [] r.transport = "status" -> Finish(call, "fetch", Raise("HTTPStatusError", ""))
                  [] OTHER -> Finish([call EXCEPT !.data = r.body.v], "parse",
                                     AnimeBoomParser_parse_anime(r.body.v))]
    /\ UNCHANGED obj

CardTitle == "div.h5"

CardPoster == "div.anime-grid-lazy"

CardLink == "a.d-block"

\* AnimeBoomPageParser._find_title
AnimeBoomPageParser_find_title(soup) ==
    IF Holds(soup, CardTitle) THEN Ok(Find(soup, CardTitle).text) ELSE not_find("title")

\* AnimeBoomPageParser._find_poster
AnimeBoomPageParser_find_poster(soup) ==
    IF Holds(soup, CardPoster)
    THEN Ok(TagGet(Find(soup, CardPoster), "data-original"))
    ELSE not_find("poster")

\* AnimeBoomPageParser._find_url
AnimeBoomPageParser_find_url(soup) ==
    IF Holds(soup, CardLink) THEN Ok(TagGet(Find(soup, CardLink), "href")) ELSE not_find("url")

\* BasicAnimeParserMini.parse_anime: BaseMiniAnimeInfo(self._find_title(soup),
\* self._find_poster(soup), self._find_url(soup)), the arguments by position.
BasicAnimeParserMini_parse_anime(soup) ==
    LET fields == <<AnimeBoomPageParser_find_title(soup),
                    AnimeBoomPageParser_find_poster(soup),
                    AnimeBoomPageParser_find_url(soup)>>
    IN  IF \E i \in 1..3 : IsError(fields[i])
        THEN fields[CHOOSE i \in 1..3 :
                        IsError(fields[i]) /\ \A j \in 1..(i - 1) : ~IsError(fields[j])]
        ELSE Ok(BaseMiniAnimeInfo(fields[1].value, fields[2].value, fields[3].value))

CardPosters ==
    {<<"https://animego.me/media/cache/thumbs_250x350/11.jpg">>,
     <<"https://animego.me/media/one", "-", "punch", "-", "man.jpg">>}

\* The parts a search card may hold.
CardTitleParts == {<<>>, <<Tag(CardTitle, Str(<<"Vanpanchmen">>), <<>>, <<>>)>>}

CardPosterParts ==
    {<<>>, <<Tag(CardPoster, Str(<<>>), <<>>, <<>>)>>}
        \cup {<<Tag(CardPoster, Str(<<>>), [a \in {"data-original"} |-> Str(p)], <<>>)>> :
                p \in CardPosters}

CardLinkParts ==
    {<<>>, <<Tag(CardLink, Str(<<>>), <<>>, <<>>)>>}
        \cup {<<Tag(CardLink, Str(<<>>), [a \in {"href"} |-> Str(u)], <<>>)>> :
                u \in AnimeUrls}

Cards ==
    {poster \o link \o title :
        poster \in CardPosterParts, link \in CardLinkParts, title \in CardTitleParts}

\* AnimeBoomPageParser.parse_anime(card) on one div.animes-grid-item.
CardCall ==
    /\ Free(1)
    /\ \E card \in Cards :
            calls' = [calls EXCEPT ![1] =
                [IdleCall EXCEPT !.pc = "parse", !.comp = "card", !.arg = Str(card)]]
    /\ UNCHANGED obj

CardRun(c) ==
    /\ calls[c].comp = "card"
    /\ calls[c].pc = "parse"
    /\ calls' = [calls EXCEPT ![c] =
            Finish(calls[c], "parse", BasicAnimeParserMini_parse_anime(calls[c].arg.s))]
    /\ UNCHANGED obj

CardSteps == \E c \in Calls : GetInfoRespond(c) \/ CardRun(c)

NextCards ==
    \/ GetInfoCall
    \/ CardCall
    \/ CardSteps
    \/ Returns

SpecCards == Init /\ [][NextCards]_vars

(***************************************************************************)
(* Pagination of search results: BasePagination, AniBoomPagination and     *)
(* AsyncAniBoomPagination.  The paginator is the object obj.pagination.    *)
(***************************************************************************)
MAX_ANIME_IN_PAGE == 16

\* The site holds result pages 1..real, real <= MaxPage.
MaxPage == 2

\* Calls made on one paginator.
MaxOps == 3

\* math.ceil(n / d)
ceil(n, d) == -((-n) \div d)

\* "aniboom": animego/aniboom/pagination.py; "async": aniboom_async/pagination.py;
\* "plain": src/aniboom/pagination.py.
PaginationKinds == {"aniboom", "async", "plain"}

GridItem == "div.animes-grid-item"

SearchCounter == "span.search-county"

\* What the counter of results shows; None is a page without the counter.
CounterTexts == {None, Str(<<"0">>), Str(<<"12">>), Str(<<"17">>), Str(<<"46">>), Str(<<"many">>)}

\* A site: the number of result pages it holds, the counter its pages show,
\* and whether the card of its last page lacks the title.
Sites == [real : 0..MaxPage, counter : CounterTexts, broken : BOOLEAN]

\* The card of page p.
SearchCard(p, broken) ==
    <<Tag(CardPoster, Str(<<>>),
          [a \in {"data-original"} |->
              Str(<<"https://animego.me/media/", ToString(p), ".jpg">>)], <<>>),
      Tag(CardLink, Str(<<>>),
          [a \in {"href"} |->
              Str(<<"https:", "//", "animego.me", "/anime/title", "-", ToString(p)>>)], <<>>)>>
        \o (IF broken THEN <<>> ELSE <<Tag(CardTitle, Str(<<"Title">>), <<>>, <<>>)>>)

\* The page the site answers a request for page p with: the counter and the
\* cards, one card on each page the site holds and none on any other.
SitePage(site, p) ==
    (IF site.counter = None THEN <<>>
     ELSE <<Tag(SearchCounter, site.counter, <<>>, <<>>)>>)
        \o (IF 1 <= p /\ p <= site.real
            THEN <<Tag(GridItem, Str(<<>>), <<>>,
                       SearchCard(p, site.broken /\ p = site.real))>>
            ELSE <<>>)

NoCall == [op |-> "none"]

NoIteration == [state |-> "none", page |-> 1, stop |-> 0, last_page |-> -1, yields |-> <<>>]

NoPagination == [state |-> "none"]

\* BasePagination.__init__ (and the two fields of the model: the calls made
\* and the pages requested so far).
BasePagination(kind, site) ==
    [state        |-> "ready",
     kind         |-> kind,
     site         |-> site,
     made         |-> "__init__",
     current_page |-> 1,
     max_page     |-> 0,
     cache        |-> <<>>,
     ops          |-> 0,
     fetches      |-> <<>>,
     last         |-> NoCall,
     it           |-> NoIteration]

Transports == {"ok", "status", "conn"}

Outcome(p, result) == [p |-> p, result |-> result]

\* fetch: httpx.get(url.format(self.current_page)), raise_for_status, text.
AniBoomPagination_fetch(P, r) ==
    LET sent == [P EXCEPT !.fetches = Append(@, P.current_page)]
    IN  CASE r = "conn"   -> Outcome(sent, Raise("RequestError", ""))
          [] r = "status" -> Outcome(sent, Raise("HTTPStatusError", ""))
          [] OTHER        -> Outcome(sent, Ok(Str(SitePage(P.site, P.current_page))))

\* parse_anime: the records of the cards of the page.  On a page without
\* cards AniBoomPagination and AsyncAniBoomPagination step back one page
\* and return self.cache[self.current_page]; src/aniboom/pagination.py
\* raises not_find('all_anime').
AniBoomPagination_parse_anime(P, html_code) ==
    LET all_anime == FindAll(html_code.s, GridItem)
        records   == [i \in 1..Len(all_anime) |->
                        BasicAnimeParserMini_parse_anime(all_anime[i].children)]
    IN  IF all_anime = <<>>
        THEN IF P.kind = "plain" THEN Outcome(P, not_find("all_anime"))
             ELSE LET back == [P EXCEPT !.max_page = P.current_page - 1,
                                        !.current_page = P.current_page - 1]
                  IN  Outcome(back,
                              IF back.current_page \in DOMAIN back.cache
                              THEN Ok(back.cache[back.current_page])
                              ELSE Raise("KeyError", ""))
        ELSE IF IsError(FirstError(records)) THEN Outcome(P, FirstError(records))
        ELSE Outcome(P, Ok(List([i \in 1..Len(records) |-> records[i].value])))

\* BasePagination.select_page / AsyncBasePagination.select_page
select_page(P, page, r) ==
    IF ~(0 < page /\ page <= P.max_page) /\ P.max_page # 0
    THEN Outcome(P, Ok(None))
    ELSE IF page \in DOMAIN P.cache
    THEN Outcome([P EXCEPT !.current_page = page], Ok(P.cache[page]))
    ELSE LET got    == AniBoomPagination_fetch([P EXCEPT !.current_page = page], r)
             parsed == AniBoomPagination_parse_anime(got.p, got.result.value)
         IN  IF IsError(got.result) THEN got
             ELSE IF IsError(parsed.result) THEN parsed
             ELSE Outcome([parsed.p EXCEPT !.cache = (page :> parsed.result.value) @@ @],
                          parsed.result)

next_page(P, r) == select_page(P, P.current_page + 1, r)

back_page(P, r) == select_page(P, P.current_page - 1, r)

get_current_page(P, r) ==
    IF P.current_page \in DOMAIN P.cache
    THEN Outcome(P, Ok(P.cache[P.current_page]))
    ELSE select_page(P, P.current_page, r)

\* AniBoomPagination._find / AsyncAniBoomPagination._find: a paginator with
\* max_page from the counter and the first page in the cache.  Only
\* AttributeError is turned into ValueError.
_find(kind, site, r) ==
    LET got  == AniBoomPagination_fetch([BasePagination(kind, site) EXCEPT !.made = "_find"], r)
        html == got.result.value
    IN  IF IsError(got.result) THEN got
        ELSE IF ~Holds(html.s, SearchCounter)
        THEN Outcome(got.p, Raise("ValueError", "AttributeError"))
        ELSE LET county == int(Find(html.s, SearchCounter).text)
                 parsed == AniBoomPagination_parse_anime(
                               [got.p EXCEPT !.max_page =
                                    ceil(county.value.n, MAX_ANIME_IN_PAGE)], html)
             IN  IF IsError(county) THEN Outcome(got.p, county)
                 ELSE IF IsError(parsed.result) THEN parsed
                 ELSE Outcome([parsed.p EXCEPT !.cache =
                                    (parsed.p.current_page :> parsed.result.value) @@ @],
                              Ok([t |-> "AniBoomPagination"]))

\* The paginator after a call, with the call, its result and the fields
\* before it.
Called(P, op, page, out) ==
    [out.p EXCEPT !.ops = P.ops + 1,
                  !.last = [op      |-> op,
                            page    |-> page,
                            result  |-> out.result,
                            before  |-> [current_page |-> P.current_page,
                                         max_page     |-> P.max_page,
                                         cache        |-> P.cache],
                            fetched |-> Len(out.p.fetches) > Len(P.fetches)]]

\* A paginator built by its constructor.
NewPagination ==
    /\ obj.pagination.state = "none"
    /\ \E kind \in PaginationKinds, site \in Sites :
            obj' = [obj EXCEPT !.pagination = BasePagination(kind, site)]
    /\ UNCHANGED calls

\* find_anime: a paginator from _find, or the error _find ends in.
FindPagination ==
    /\ obj.pagination.state = "none"
    /\ \E kind \in PaginationKinds, site \in Sites, r \in Transports :
        LET out == _find(kind, site, r)
        IN  obj' = [obj EXCEPT !.pagination =
                [Called(BasePagination(kind, site), "_find", 1, out)
                    EXCEPT !.state = IF IsError(out.result) THEN "failed" ELSE "ready",
                           !.ops = 0]]
    /\ UNCHANGED calls

\* The paginator takes a call: it exists and no iteration of it is running.
Callable ==
    /\ obj.pagination.state = "ready"
    /\ obj.pagination.it.state # "run"
    /\ obj.pagination.ops < MaxOps

PageArguments == 0..(MaxPage + 1)

SelectPage ==
    /\ Callable
    /\ \E page \in PageArguments, r \in Transports :
        LET P == obj.pagination
        IN  obj' = [obj EXCEPT !.pagination =
                        Called(P, "select_page", page, select_page(P, page, r))]
    /\ UNCHANGED calls

NextPage ==
    /\ Callable
    /\ \E r \in Transports :
        LET P == obj.pagination
        IN  obj' = [obj EXCEPT !.pagination =
                        Called(P, "next_page", P.current_page + 1, next_page(P, r))]
    /\ UNCHANGED calls

BackPage ==
    /\ Callable
    /\ \E r \in Transports :
        LET P == obj.pagination
        IN  obj' = [obj EXCEPT !.pagination =
                        Called(P, "back_page", P.current_page - 1, back_page(P, r))]
    /\ UNCHANGED calls

GetCurrentPage ==
    /\ Callable
    /\ \E r \in Transports :
        LET P == obj.pagination
        IN  obj' = [obj EXCEPT !.pagination =
                        Called(P, "get_current_page", P.current_page, get_current_page(P, r))]
    /\ UNCHANGED calls

\* __iter__ / __aiter__, up to the loop: range(1, self.max_page + 1) is
\* evaluated once.
IterStart ==
    /\ obj.pagination.state = "ready"
    /\ obj.pagination.made = "_find"
    /\ obj.pagination.it.state = "none"
    /\ obj' = [obj EXCEPT !.pagination.it =
                    [NoIteration EXCEPT !.state = "run", !.stop = obj.pagination.max_page]]
    /\ UNCHANGED calls

\* One round of the loop.  AniBoomPagination.__iter__ stops when
\* current_page is what it was after the round before; __aiter__ and
\* src/aniboom/pagination.py yield whatever select_page returns.
IterStep ==
    /\ obj.pagination.state = "ready"
    /\ obj.pagination.it.state = "run"
    /\ \E r \in Transports :
        LET P   == obj.pagination
            it  == P.it
            out == select_page(P, it.page, r)
        IN  obj' = [obj EXCEPT !.pagination =
                IF it.page > it.stop THEN [P EXCEPT !.it.state = "end"]
                ELSE IF IsError(out.result)
                THEN [out.p EXCEPT !.it.state = "raised"]
                ELSE IF P.kind = "aniboom" /\ it.last_page = out.p.current_page
                THEN [out.p EXCEPT !.it.state = "end"]
                ELSE [out.p EXCEPT !.it.yields =
                                        Append(@, [page |-> it.page, value |-> out.result.value]),
                                   !.it.last_page = out.p.current_page,
                                   !.it.page = it.page + 1]]
    /\ UNCHANGED calls

NextPages ==
    \/ NewPagination
    \/ FindPagination
    \/ SelectPage
    \/ NextPage
    \/ BackPage
    \/ GetCurrentPage
    \/ IterStart
    \/ IterStep

SpecPages == Init /\ [][NextPages]_vars

(***************************************************************************)
(* Properties.                                                             *)
(***************************************************************************)
InTrace(k, stage) == \E i \in 1..Len(k.trace) : k.trace[i] = stage

\* The catalog call k got a JSON object as its response.
HasEnvelope(k) ==
    /\ k.comp = "catalog"
    /\ Len(k.ups) = 1
    /\ k.ups[1].transport = "ok"
    /\ k.ups[1].body.k = "json"
    /\ k.ups[1].body.v.t = "dict"

Envelope(k) == k.ups[1].body.v.m

StatusIsSuccess(e) == "status" \in DOMAIN e /\ e["status"] = Str(<<"success">>)

ContentMissing(e) ==
    "content" \notin DOMAIN e \/ e["content"] \in {None, Str(<<>>), EmptyList}

\* C1: a catalog response whose status is not "success" (or is missing) ends
\* in StatusError at validation; its content is never read and the player
\* parser is never invoked for it.
C1_StatusError ==
    \A c \in Calls :
        LET k == calls[c]
        IN  (HasEnvelope(k) /\ ~StatusIsSuccess(Envelope(k))) =>
                /\ k.pc \in {"validate", "done"}
                /\ "content" \notin k.reads
                /\ ~InTrace(k, "parse")
                /\ (k.pc = "done" => /\ k.result.kind = "StatusError"
                                     /\ k.trace = <<"fetch", "validate">>)

C1_Witness ==
    \E c \in Calls :
        /\ HasEnvelope(calls[c])
        /\ "status" \in DOMAIN Envelope(calls[c])
        /\ Envelope(calls[c])["status"] = Str(<<"error">>)
        /\ "content" \in DOMAIN Envelope(calls[c])
        /\ Envelope(calls[c])["content"] = Str(FullCatalogHtml)
        /\ calls[c].pc = "done"
        /\ calls[c].result.kind = "StatusError"

\* C2: a catalog response with status "success" whose content is absent or
\* falsy ends in NotFindError for content, in both modes; parse_player runs
\* only after the status check and the content check have both passed.
C2_ContentNotFound ==
    \A c \in Calls :
        LET k == calls[c]
        IN  /\ (HasEnvelope(k) /\ StatusIsSuccess(Envelope(k))
                    /\ ContentMissing(Envelope(k))) =>
                    /\ k.pc \in {"validate", "done"}
                    /\ (k.pc = "done" => k.result = not_find("content"))
            /\ (k.comp = "catalog" /\ (k.pc = "parse" \/ InTrace(k, "parse"))) =>
                    /\ HasEnvelope(k)
                    /\ StatusIsSuccess(Envelope(k))
                    /\ ~ContentMissing(Envelope(k))
                    /\ {"status", "content"} \subseteq k.reads
                    /\ k.trace \in {<<"fetch", "validate">>,
                                    <<"fetch", "validate", "parse">>}

C2_Witness ==
    \E c \in Calls :
        /\ HasEnvelope(calls[c])
        /\ StatusIsSuccess(Envelope(calls[c]))
        /\ "content" \in DOMAIN Envelope(calls[c])
        /\ Envelope(calls[c])["content"] = Str(<<>>)
        /\ calls[c].mode = "async"
        /\ calls[c].pc = "done"
        /\ calls[c].result = not_find("content")

Last(seq) == seq[Len(seq)]

IsPrefix(a, b) == Len(a) <= Len(b) /\ \A i \in 1..Len(a) : a[i] = b[i]

\* The last request of call k ended in a connection error or a non-2xx status.
TransportFailed(k) == Len(k.ups) > 0 /\ Last(k.ups).transport # "ok"

\* C3: in every component a transport failure (connection error, non-2xx
\* status) reaches the caller as the HTTP collaborator's own error, never as
\* NotFindError, StatusError or DataIncorrectError.
C3_TransportUnchanged ==
    \A c \in Calls :
        LET k == calls[c]
        IN  (k.pc = "done" /\ TransportFailed(k)) =>
                k.result.kind =
                    IF Last(k.ups).transport = "conn" THEN "RequestError"
                    ELSE "HTTPStatusError"

\* The stages of each kind of call, in the order of the code.
StageOrder(comp) ==
    CASE comp = "catalog"  -> <<"fetch", "validate", "parse">>
      [] comp = "embed"    -> <<"normalize", "fetch", "parse_html", "decode">>
      [] comp = "mpd"      -> <<"normalize", "fetch", "parse_html", "decode", "fetch_mpd">>
      [] comp = "playlist" -> <<"normalize", "fetch", "find", "params",
                                "fetch_playlist", "loads", "map">>
      [] comp = "video"    -> <<"check", "fetch", "loads">>
      [] OTHER             -> <<>>

FetchStages == {"fetch", "fetch_mpd", "fetch_playlist"}

FetchesIn(trace) == Cardinality({i \in 1..Len(trace) : trace[i] \in FetchStages})

\* C4: a call runs its stages in the fixed order; once a stage has failed the
\* call is over (no later stage, no further request, no record); a record is
\* returned only after every stage; the manifest is requested only after the
\* embed page was fetched and decoded, the playlist only after the iframe
\* was fetched and its marker element found.
C4_StagesInOrder ==
    \A c \in Calls :
        LET k == calls[c]
        IN  /\ IsPrefix(k.trace, StageOrder(k.comp))
            /\ IsError(k.result) => k.pc = "done"
            /\ k.result.kind = "ok" => (k.pc = "done" /\ k.trace = StageOrder(k.comp))
            /\ Len(k.reqs) <= FetchesIn(k.trace)
            /\ Len(k.ups) <= Len(k.reqs)
            /\ \A i \in 1..Len(k.ups) : i < Len(k.reqs) => k.ups[i].transport = "ok"
            /\ (k.comp = "mpd" /\ Len(k.reqs) = 2) =>
                    (IsPrefix(<<"normalize", "fetch", "parse_html", "decode">>, k.trace)
                        /\ k.data.t = "EmbedData")
            /\ (k.comp = "playlist" /\ Len(k.reqs) = 2) =>
                    (IsPrefix(<<"normalize", "fetch", "find", "params">>, k.trace)
                        /\ k.ups[1].body.player)

C4_Witness ==
    \E c \in Calls :
        /\ calls[c].comp = "mpd"
        /\ calls[c].mode = "sync"
        /\ calls[c].pc = "done"
        /\ calls[c].trace = <<"normalize", "fetch", "parse_html">>
        /\ calls[c].result = not_find("data_parameters")
        /\ Len(calls[c].reqs) = 1

\* Two calls saw the same upstream: neither got an answer the other did not.
SameUpstream(a, b) == IsPrefix(a.ups, b.ups) \/ IsPrefix(b.ups, a.ups)

\* C5: on the same input and the same upstream behaviour the blocking and
\* the non-blocking resolver issue the same requests (URL and headers) and
\* end with the same record or the same kind of error.
C5_ModesAgree ==
    \A c1, c2 \in Calls :
        LET a == calls[c1]
            b == calls[c2]
        IN  (a.pc = "done" /\ b.pc = "done" /\ a.mode = "sync" /\ b.mode = "async"
                /\ a.comp = b.comp /\ a.arg = b.arg /\ SameUpstream(a, b)) =>
                /\ a.reqs = b.reqs
                /\ a.result.kind = b.result.kind
                /\ a.result.value = b.result.value

\* C6: once data-parameters has been decoded to an object, every failure to
\* build the EmbedData record in get_full_data (a key missing, dash or hls
\* not decodable, the decoded dash or hls without src or no object) ends in
\* DataIncorrectError.
C6_DecodeFailureIsDataIncorrect ==
    \A c \in Calls :
        LET k == calls[c]
        IN  (k.comp \in {"embed", "mpd"} /\ k.pc = "done" /\ IsError(k.result)
                /\ k.trace = <<"normalize", "fetch", "parse_html", "decode">>
                /\ k.data.t = "dict") =>
                k.result.kind = "DataIncorrectError"

\* The embed page call k fetched.
EmbedPage(k) == k.ups[1].body

\* C7: without <div id="video"> the embed parser raises NotFindError for the
\* video block; with the element but without data-parameters it raises
\* NotFindError for the parameters; it raises DataIncorrectError only when
\* the attribute is there and does not hold JSON.
C7_EmbedParserErrors ==
    \A c \in Calls :
        LET k == calls[c]
        IN  (k.comp \in {"embed", "mpd"} /\ InTrace(k, "parse_html")) =>
                /\ ~EmbedPage(k).video =>
                        (k.pc = "done" /\ k.result = not_find("div#video"))
                /\ (EmbedPage(k).video /\ EmbedPage(k).params = None) =>
                        (k.pc = "done" /\ k.result = not_find("data_parameters"))
                /\ (Last(k.trace) = "parse_html" /\ k.result.kind = "DataIncorrectError") =>
                        /\ EmbedPage(k).video
                        /\ EmbedPage(k).params.t = "str"
                        /\ EmbedPage(k).params.s # <<>>
                        /\ "doc" \notin DOMAIN EmbedPage(k).params

C7_Witness ==
    \E c \in Calls :
        /\ calls[c].comp = "embed"
        /\ calls[c].mode = "sync"
        /\ calls[c].pc = "done"
        /\ Len(calls[c].ups) = 1
        /\ calls[c].ups[1].transport = "ok"
        /\ EmbedPage(calls[c]).video
        /\ EmbedPage(calls[c]).params = None
        /\ calls[c].result = not_find("data_parameters")

\* The src the page of call k gives for its dash or hls entry.
PageSrc(k, entry) == EmbedPage(k).params.doc.m[entry].doc.m["src"]

\* Call k has built an EmbedData record.
HasDescriptor(k) ==
    \/ k.comp = "embed" /\ k.result.kind = "ok"
    \/ k.comp = "mpd" /\ InTrace(k, "decode") /\ k.data.t = "EmbedData"

Descriptor(k) == IF k.comp = "embed" THEN k.result.value ELSE k.data

\* C8: in every EmbedData record mpd_url is the src of the decoded dash
\* entry and m3u8_url the src of the decoded hls entry, unchanged and not
\* swapped; get_mpd requests the manifest at that mpd_url.
C8_ManifestUrls ==
    \A c \in Calls :
        LET k == calls[c]
        IN  HasDescriptor(k) =>
                /\ Descriptor(k).mpd_url = PageSrc(k, "dash")
                /\ Descriptor(k).m3u8_url = PageSrc(k, "hls")
                /\ Len(k.reqs) = 2 => k.reqs[2].url = PageSrc(k, "dash").s

C8_Witness ==
    \E c \in Calls :
        /\ calls[c].comp = "embed"
        /\ calls[c].pc = "done"
        /\ calls[c].result.kind = "ok"
        /\ calls[c].result.value.mpd_url = Str(<<"mpd", "2">>)
        /\ calls[c].result.value.m3u8_url = Str(<<"m3u8", "1">>)

\* The objects as their constructors leave them.
Constructed ==
    {[player |-> BasePlayerInit(d), mpd |-> BaseMpdInit(d),
      pagination |-> [state |-> "none"]] : d \in Domains}

RefString(arg) == IF arg.t = "str" THEN arg ELSE arg.url

\* C10: _normalize_url, for get_full_data, get_mpd and get_playlist alike,
\* accepts a string or a PlayerPart (its url); a reference //host/path
\* becomes https://host/path and is what the first request goes to; any
\* other input ends in TypeError before a request is issued.
C10_Normalize ==
    \A c \in Calls :
        LET k == calls[c]
        IN  (k.comp \in {"embed", "mpd", "playlist"} /\ InTrace(k, "normalize")) =>
                IF k.arg.t \in {"str", "PlayerPart"}
                THEN /\ ~(k.trace = <<"normalize">> /\ IsError(k.result))
                     /\ (RefString(k.arg).t = "str" /\ RefString(k.arg).s # <<>>
                            /\ RefString(k.arg).s[1] = "//") =>
                            /\ Len(k.reqs) = 0 => k.url = <<"https:">> \o RefString(k.arg).s
                            /\ Len(k.reqs) > 0 =>
                                    k.reqs[1].url = <<"https:">> \o RefString(k.arg).s
                ELSE /\ k.pc = "done"
                     /\ k.result.kind = "TypeError"
                     /\ k.trace = <<"normalize">>
                     /\ k.reqs = <<>>

C10_Witness ==
    \E c \in Calls :
        /\ calls[c].comp = "playlist"
        /\ calls[c].arg = PlayerPart(Str(<<"//", "aniboom.one", "/embed/x">>))
        /\ Len(calls[c].reqs) = 1
        /\ calls[c].reqs[1].url = <<"https:", "//", "aniboom.one", "/embed/x">>

\* The iframe document playlist call k fetched.
IframePage(k) == k.ups[1].body

\* The <video-player> of the page carries all three attributes.
HasAllAttributes(page) == page.player /\ PlayerAttributeSet \subseteq DOMAIN page.attrs

\* C11: when the iframe document holds a <video-player> with
\* data-publisher-id=P, data-aggregator=A and data-title-id=T, get_playlist
\* issues exactly one playlist request (the second and last request of the
\* call), to URL_PLAYLIST whatever the reference and the configured domain
\* are, with the query {pub: P, aggr: A, id: T}.
C11_PlaylistRequest ==
    \A c \in Calls :
        LET k == calls[c]
        IN  (k.comp = "playlist" /\ InTrace(k, "params")
                /\ HasAllAttributes(IframePage(k))) =>
                /\ Len(k.reqs) = 2
                /\ k.reqs[2].method = "GET"
                /\ k.reqs[2].url = URL_PLAYLIST
                /\ k.reqs[2].params =
                        [pub  |-> IframePage(k).attrs["data-publisher-id"],
                         aggr |-> IframePage(k).attrs["data-aggregator"],
                         id   |-> IframePage(k).attrs["data-title-id"]]

C11_Witness ==
    \E c \in Calls :
        /\ calls[c].comp = "playlist"
        /\ calls[c].pc = "done"
        /\ calls[c].result.kind = "ok"
        /\ obj.mpd.domain = OtherDomain
        /\ calls[c].arg = Str(<<"http:", "//", "aniboom.one", "/embed/x">>)
        /\ Len(calls[c].reqs) = 2
        /\ calls[c].reqs[2].params =
                [pub |-> Str(<<"5">>), aggr |-> Str(<<"x">>), id |-> Str(<<"99">>)]

\* The playlist endpoint answered call k with the JSON text of an object.
HasPlaylistObject(k) ==
    /\ k.comp = "playlist"
    /\ InTrace(k, "map")
    /\ k.ups[2].body.v.doc.form = "object"

\* The playlist object call k decoded.
PlaylistObject(k) == k.ups[2].body.v.doc.m

\* The required keys the playlist object lacks: top-level keys, and keys of
\* the items when items is a list.
MissingKeys(m) ==
    (PlaylistKeys \ DOMAIN m)
    \cup (IF "items" \in DOMAIN m /\ m["items"].t = "list"
          THEN UNION {ItemKeys \ DOMAIN m["items"].items[i].m :
                            i \in 1..Len(m["items"].items)}
          ELSE {})

\* C12: when the playlist JSON lacks a required key (titleName, isSerial,
\* items, or one of the seven keys of any item), get_playlist ends in
\* DataIncorrectError naming a missing key and returns no CvhData, not even
\* one with the complete items.
C12_MissingKey ==
    \A c \in Calls :
        LET k == calls[c]
        IN  (HasPlaylistObject(k) /\ MissingKeys(PlaylistObject(k)) # {}) =>
                /\ k.pc = "done"
                /\ k.result.kind = "DataIncorrectError"
                /\ k.result.msg \in MissingKeys(PlaylistObject(k))
                /\ k.result.value = None

C12_Witness ==
    \E c \in Calls :
        /\ calls[c].comp = "playlist"
        /\ calls[c].pc = "done"
        /\ HasPlaylistObject(calls[c])
        /\ DOMAIN PlaylistObject(calls[c]) = PlaylistKeys
        /\ PlaylistObject(calls[c])["items"].t = "list"
        /\ Len(PlaylistObject(calls[c])["items"].items) = 2
        /\ DOMAIN PlaylistObject(calls[c])["items"].items[1].m = ItemKeys
        /\ DOMAIN PlaylistObject(calls[c])["items"].items[2].m = ItemKeys \ {"vkId"}
        /\ calls[c].result = Raise("DataIncorrectError", "vkId")

\* C13: an iframe document without <video-player> ends get_playlist in
\* NotFindError for video-player, and the call requests nothing but the
\* iframe document.
C13_NoVideoPlayer ==
    \A c \in Calls :
        LET k == calls[c]
        IN  (k.comp = "playlist" /\ InTrace(k, "find") /\ ~IframePage(k).player) =>
                /\ k.pc = "done"
                /\ k.result = not_find("video-player")
                /\ k.trace = <<"normalize", "fetch", "find">>
                /\ Len(k.reqs) = 1
                /\ k.reqs[1].url # URL_PLAYLIST

C13_Witness ==
    \E c \in Calls :
        /\ calls[c].comp = "playlist"
        /\ calls[c].pc = "done"
        /\ Len(calls[c].ups) = 1
        /\ calls[c].ups[1].transport = "ok"
        /\ ~IframePage(calls[c]).player
        /\ calls[c].result = not_find("video-player")

\* The <video-player> is there and lacks one of the three attributes.
LacksAttribute(page) == page.player /\ ~(PlayerAttributeSet \subseteq DOMAIN page.attrs)

\* C14, as stated: a <video-player> that lacks data-publisher-id,
\* data-aggregator or data-title-id ends get_playlist in NotFindError, not in
\* DataIncorrectError, with no playlist request.
C14_MissingAttributeNotFound ==
    \A c \in Calls :
        LET k == calls[c]
        IN  (k.comp = "playlist" /\ InTrace(k, "params")
                /\ LacksAttribute(IframePage(k))) =>
                /\ k.pc = "done"
                /\ k.result.kind = "NotFindError"
                /\ Len(k.reqs) = 1

\* C14, amended: a <video-player> that lacks data-publisher-id,
\* data-aggregator or data-title-id ends get_playlist in DataIncorrectError
\* naming the absent attribute, with no playlist request.
C14_MissingAttributeDataIncorrect ==
    \A c \in Calls :
        LET k == calls[c]
        IN  (k.comp = "playlist" /\ InTrace(k, "params")
                /\ LacksAttribute(IframePage(k))) =>
                /\ k.pc = "done"
                /\ k.result.kind = "DataIncorrectError"
                /\ k.result.msg \in PlayerAttributeSet \ DOMAIN IframePage(k).attrs
                /\ k.trace = <<"normalize", "fetch", "find", "params">>
                /\ Len(k.reqs) = 1

C14_Witness ==
    \E c \in Calls :
        /\ calls[c].comp = "playlist"
        /\ calls[c].pc = "done"
        /\ calls[c].trace = <<"normalize", "fetch", "find", "params">>
        /\ IframePage(calls[c]).player
        /\ DOMAIN IframePage(calls[c]).attrs = PlayerAttributeSet \ {"data-aggregator"}
        /\ calls[c].result = Raise("DataIncorrectError", "data-aggregator")
        /\ Len(calls[c].reqs) = 1

\* Call k ran the parser on its own; the document it was given.
Parsed(k) == k.comp = "parser" /\ k.pc = "done"

Document(k) == k.arg.s

\* Call k returned a PlayerParseInfo.
HasCatalog(k) == Parsed(k) /\ k.result.kind = "ok"

Groups(k) == k.result.value.info

\* C15: in every Player the parser builds, ids and players have the same
\* length, players[i].dubbing_id equals ids[i] for every i, and ids holds
\* integers (the document's "12", "46" give ids = [12, 46]).
C15_GroupIdsMatchParts ==
    \A c \in Calls :
        LET k == calls[c]
        IN  HasCatalog(k) =>
                \A g \in 1..Len(Groups(k)) :
                    /\ Len(Groups(k)[g].ids) = Len(Groups(k)[g].players)
                    /\ \A i \in 1..Len(Groups(k)[g].ids) :
                        /\ Groups(k)[g].ids[i].t = "int"
                        /\ Groups(k)[g].players[i].dubbing_id = Groups(k)[g].ids[i]

\* C16: in every PlayerParseInfo each identifier in a Player's ids is an
\* element of all_dubbing, and no two Players have the same title.
C16_GroupIdsInAllDubbing ==
    \A c \in Calls :
        LET k == calls[c]
        IN  HasCatalog(k) =>
                /\ \A g \in 1..Len(Groups(k)) :
                    \A i \in 1..Len(Groups(k)[g].ids) :
                        \E j \in 1..Len(k.result.value.all_dubbing) :
                            k.result.value.all_dubbing[j] = Groups(k)[g].ids[i]
                /\ \A g, h \in 1..Len(Groups(k)) :
                        Groups(k)[g].title = Groups(k)[h].title => g = h

\* An identifier as a number, whether the record holds it as text or as int.
IdValue(id) == IF id.t = "int" THEN id ELSE int(id).value

\* The children of div#video-players that name the service, in document order.
ServiceEntries(html, title) ==
    SelectSeq(Find(html, PlayersBox).children, LAMBDA tag : tag.text = title)

\* C17: for every document the parser accepts, all_dubbing holds no value
\* twice, and each Player's ids are the identifiers of that service's
\* entries in the order of the document.
C17_UniqueAndOrdered ==
    \A c \in Calls :
        LET k == calls[c]
        IN  HasCatalog(k) =>
                /\ \A i, j \in 1..Len(k.result.value.all_dubbing) :
                        k.result.value.all_dubbing[i] = k.result.value.all_dubbing[j]
                            => i = j
                /\ \A g \in 1..Len(Groups(k)) :
                    LET entries == ServiceEntries(Document(k), Groups(k)[g].title)
                    IN  /\ Len(Groups(k)[g].ids) = Len(entries)
                        /\ \A i \in 1..Len(entries) :
                                IdValue(Groups(k)[g].ids[i])
                                    = IdValue(TagGet(entries[i], "data-provide-dubbing"))

\* C18, as stated: parse_player ends in NotFindError whenever the title
\* marker, div#video-dubbing or div#video-players is absent, and returns a
\* PlayerParseInfo only when all three are there.
C18_ThreeRegionsRequired ==
    \A c \in Calls :
        LET k == calls[c]
        IN  Parsed(k) =>
                /\ (~Holds(Document(k), TitleMarker) \/ ~Holds(Document(k), DubbingBox)
                        \/ ~Holds(Document(k), PlayersBox)) =>
                        k.result.kind = "NotFindError"
                /\ k.result.kind = "ok" =>
                        (Holds(Document(k), TitleMarker) /\ Holds(Document(k), DubbingBox)
                            /\ Holds(Document(k), PlayersBox))

\* C18, amended: parse_player ends in NotFindError whenever div#video-dubbing
\* or div#video-players is absent (the dubbing block is looked up first) and
\* returns a PlayerParseInfo only when both are there; a missing title
\* marker is no error and gives the empty title.
C18_TwoBlocksRequired ==
    \A c \in Calls :
        LET k == calls[c]
        IN  Parsed(k) =>
                /\ ~Holds(Document(k), DubbingBox) => k.result = not_find("dubbing_box")
                /\ (Holds(Document(k), DubbingBox) /\ ~Holds(Document(k), PlayersBox)) =>
                        k.result = not_find("players_box")
                /\ k.result.kind = "NotFindError" =>
                        (~Holds(Document(k), DubbingBox) \/ ~Holds(Document(k), PlayersBox))
                /\ k.result.kind = "ok" =>
                        /\ Holds(Document(k), DubbingBox)
                        /\ Holds(Document(k), PlayersBox)
                        /\ ~Holds(Document(k), TitleMarker) =>
                                k.result.value.title = Str(<<>>)

C18_Witness ==
    \E c \in Calls :
        /\ Parsed(calls[c])
        /\ ~Holds(Document(calls[c]), TitleMarker)
        /\ Holds(Document(calls[c]), DubbingBox)
        /\ Holds(Document(calls[c]), PlayersBox)
        /\ calls[c].result.kind = "ok"
        /\ calls[c].result.value.title = Str(<<>>)
        /\ Len(calls[c].result.value.info) = 2

C20_OwnConnectionReleased ==
    \A c \in Calls :
        LET k == calls[c]
        IN  k.pc = "done" =>
                /\ Len(k.clients) = Len(k.reqs)
                /\ \A i \in 1..Len(k.clients) : k.clients[i].own /\ ~k.clients[i].open

\* C20, amended: every fetch of a blocking resolver opens a client of its
\* own, which is open only while that fetch is pending and closed on every
\* way out of the call; a non-blocking resolver opens no client, it sends
\* through the one it was constructed with, which stays open.
C20_BlockingClientClosed ==
    \A c \in Calls :
        LET k == calls[c]
        IN  /\ Len(k.clients) = Len(k.reqs)
            /\ k.mode = "sync" =>
                \A i \in 1..Len(k.clients) :
                    /\ k.clients[i].own
                    /\ k.clients[i].open =>
                            (i = Len(k.clients) /\ k.pc \in PendingPcs
                                /\ Len(k.ups) < Len(k.reqs))
            /\ k.mode = "async" =>
                \A i \in 1..Len(k.clients) : ~k.clients[i].own /\ k.clients[i].open

C20_Witness ==
    \E c \in Calls :
        /\ calls[c].comp = "mpd"
        /\ calls[c].mode = "sync"
        /\ calls[c].pc = "done"
        /\ Len(calls[c].ups) = 2
        /\ calls[c].ups[2].transport = "conn"
        /\ Len(calls[c].clients) = 2
        /\ \A i \in 1..2 : calls[c].clients[i].own /\ ~calls[c].clients[i].open

\* The dub map of the document of call k, as _parse_dubbing_data builds it.
DubMap(k) == DubbingOf(Find(Document(k), DubbingBox).children)

\* C25: when div#video-players repeats a dubbing identifier for one service,
\* the later entry replaces the earlier one: the Player has exactly one part
\* for that identifier, with the data-player of the last occurrence.
C25_LastEntryWins ==
    \A c \in Calls :
        LET k == calls[c]
        IN  HasCatalog(k) =>
                \A g \in 1..Len(Groups(k)) :
                    LET entries == ServiceEntries(Document(k), Groups(k)[g].title)
                        parts   == Groups(k)[g].players
                    IN  /\ \A i, j \in 1..Len(parts) :
                                parts[i].dubbing_id = parts[j].dubbing_id => i = j
                        /\ \A e \in 1..Len(entries) :
                            (\A l \in (e + 1)..Len(entries) :
                                TagGet(entries[l], "data-provide-dubbing")
                                    # TagGet(entries[e], "data-provide-dubbing")) =>
                                \E i \in 1..Len(parts) :
                                    /\ parts[i].dubbing_id
                                        = IdValue(TagGet(entries[e], "data-provide-dubbing"))
                                    /\ parts[i].url = TagGet(entries[e], "data-player")

\* C26: every part's dubbing_name is the name div#video-dubbing gives for
\* the entry's dubbing identifier, and "unknown" when the identifier is not
\* in the dub map; the lookup never fails.
C26_DubNameOrUnknown ==
    \A c \in Calls :
        LET k == calls[c]
        IN  HasCatalog(k) =>
                \A g \in 1..Len(Groups(k)) :
                    LET entries == ServiceEntries(Document(k), Groups(k)[g].title)
                        parts   == Groups(k)[g].players
                    IN  \A i \in 1..Len(parts) :
                            i <= Len(entries) =>
                                parts[i].dubbing_name =
                                    IF KeyIndex(DubMap(k),
                                                TagGet(entries[i], "data-provide-dubbing")) # 0
                                    THEN DictGet(DubMap(k),
                                                 TagGet(entries[i], "data-provide-dubbing"))
                                    ELSE Str(<<"unknown">>)

\* C27: all_dubbing is the keys of the dub map in document order, each as
\* an integer; when a key is no number, or a child of div#video-dubbing has
\* no data-dubbing, parse_player ends in DataIncorrectError and in no other
\* kind of error.
C27_AllDubbingOrDataIncorrect ==
    \A c \in Calls :
        LET k == calls[c]
        IN  (Parsed(k) /\ Holds(Document(k), DubbingBox) /\ Holds(Document(k), PlayersBox)) =>
                /\ (\E i \in 1..Len(DubMap(k)) : IsError(int(DubMap(k)[i].key))) =>
                        k.result.kind = "DataIncorrectError"
                /\ k.result.kind = "ok" =>
                        /\ Len(k.result.value.all_dubbing) = Len(DubMap(k))
                        /\ \A i \in 1..Len(DubMap(k)) :
                                k.result.value.all_dubbing[i] = int(DubMap(k)[i].key).value

\* A call of AniBoom.get_info that returned a record.
Informed(k) == k.comp = "get_info" /\ k.pc = "done" /\ k.result.kind = "ok"

\* The text after the last "-" of a string that holds one.
AfterLastDash(s) ==
    LET i == CHOOSE j \in 1..Len(s) : s[j] = "-" /\ \A l \in (j + 1)..Len(s) : s[l] # "-"
    IN  SubSeq(s, i + 1, Len(s))

HasDash(v) == v.t = "str" /\ \E i \in 1..Len(v.s) : v.s[i] = "-"

CardParsed(k) == k.comp = "card" /\ k.pc = "done" /\ k.result.kind = "ok"

\* C30: the record of a search card has the card's title as title, the href
\* of a.d-block as url and the data-original of the poster as poster_url,
\* so the ID of a search result comes from the link of the page.
C30_CardFields ==
    \A c \in Calls :
        LET k    == calls[c]
            card == k.arg.s
        IN  CardParsed(k) =>
                /\ k.result.value.title = Find(card, CardTitle).text
                /\ k.result.value.url = TagGet(Find(card, CardLink), "href")
                /\ k.result.value.poster_url = TagGet(Find(card, CardPoster), "data-original")
                /\ ID(k.result.value)
                    = ID([url |-> TagGet(Find(card, CardLink), "href")])

Paginator == obj.pagination

\* The last call on the paginator was select_page, next_page or back_page.
Selected == Paginator.state = "ready" /\ Paginator.last.op \in {"select_page", "next_page", "back_page"}

Navigated == Selected \/ (Paginator.state = "ready" /\ Paginator.last.op = "get_current_page")

\* The fields of the paginator are what they were before the last call.
Untouched ==
    /\ Paginator.current_page = Paginator.last.before.current_page
    /\ Paginator.max_page = Paginator.last.before.max_page
    /\ Paginator.cache = Paginator.last.before.cache

\* The records of the cards the site shows on page p.
PageItems(site, p) ==
    LET cards == FindAll(SitePage(site, p), GridItem)
    IN  List([i \in 1..Len(cards) |-> BasicAnimeParserMini_parse_anime(cards[i].children).value])

\* C22: select_page(p) for a page in the cache returns the cached list,
\* sets current_page to p, makes no request and leaves cache and max_page
\* as they were; no call requests a page that is in the cache, so a page
\* that was loaded is never loaded again.
C22_CachedPageNotFetched ==
    /\ (Selected /\ Paginator.last.page \in DOMAIN Paginator.last.before.cache) =>
            /\ Paginator.last.result = Ok(Paginator.last.before.cache[Paginator.last.page])
            /\ Paginator.current_page = Paginator.last.page
            /\ ~Paginator.last.fetched
            /\ Paginator.cache = Paginator.last.before.cache
            /\ Paginator.max_page = Paginator.last.before.max_page
    /\ (Navigated /\ Paginator.last.fetched) =>
            Paginator.fetches[Len(Paginator.fetches)] \notin DOMAIN Paginator.last.before.cache

\* C23: select_page(p), also through next_page and back_page, returns None
\* whenever p < 1 and whenever p > max_page with max_page # 0; it then
\* makes no request and leaves current_page, max_page and cache alone.
C23_NoSuchPage ==
    (/\ Selected
     /\ \/ Paginator.last.page < 1
        \/ /\ Paginator.last.page > Paginator.last.before.max_page
           /\ Paginator.last.before.max_page # 0) =>
        /\ Paginator.last.result = Ok(None)
        /\ ~Paginator.last.fetched
        /\ Untouched

\* The first page as _find received it (the request itself went through).
Found == Paginator.state \in {"ready", "failed"} /\ Paginator.last.op = "_find"

FirstPage == SitePage(Paginator.site, 1)

\* C28: _find raises ValueError when the search found no title: the
\* counter is missing, the counter is 0, or the first page has no cards.
\* Once the page is received _find ends in no other error, and it returns
\* no paginator with max_page = 0 or with an empty first page.
C28_NoTitleValueError ==
    (Found /\ Paginator.last.result.kind \notin {"RequestError", "HTTPStatusError"}) =>
        /\ (\/ ~Holds(FirstPage, SearchCounter)
            \/ Paginator.site.counter = Str(<<"0">>)
            \/ ~Holds(FirstPage, GridItem)) =>
                Paginator.last.result.kind = "ValueError"
        /\ Paginator.last.result.kind \in {"ok", "ValueError"}
        /\ Paginator.last.result.kind = "ok" =>
                /\ Paginator.max_page # 0
                /\ 1 \in DOMAIN Paginator.cache
                /\ Paginator.cache[1] # EmptyList

\* C29: after any calls of select_page, next_page and back_page every
\* cache[p] holds the records of page p's own response, every key of the
\* cache and current_page are at least 1 and, when max_page is known (not
\* 0), at most max_page; a page without cards puts no other page's records
\* under p and does not take current_page to 0.
C29_CacheHoldsOwnPages ==
    Selected =>
        /\ \A p \in DOMAIN Paginator.cache :
                /\ Paginator.cache[p] = PageItems(Paginator.site, p)
                /\ 1 <= p
                /\ Paginator.max_page # 0 => p <= Paginator.max_page
        /\ 1 <= Paginator.current_page
        /\ Paginator.max_page # 0 => Paginator.current_page <= Paginator.max_page

\* The smaller of two numbers.
Min(a, b) == IF a < b THEN a ELSE b

\* C24: iterating a paginator that _find returned yields, in the order of
\* the pages, the records of each page that exists up to max_page: the i-th
\* list is the one of page i, never None and never the list of a page
\* yielded before; an iteration that ends has yielded one list for every
\* such page.
C24_IterationYieldsEachPageOnce ==
    (Paginator.state = "ready" /\ Paginator.made = "_find"
        /\ Paginator.last.op = "_find" /\ Paginator.it.state \in {"run", "end"}) =>
        LET yields == Paginator.it.yields
        IN  /\ \A i \in 1..Len(yields) :
                    /\ yields[i].value # None
                    /\ yields[i].value = PageItems(Paginator.site, i)
            /\ \A i, j \in 1..Len(yields) : yields[i].value = yields[j].value => i = j
            /\ Paginator.it.state = "end" =>
                    Len(yields) = Min(Paginator.site.real, Paginator.it.stop)

====
